---- MODULE Spec2Model ----
(***************************************************************************)
(* Verification model of the Magolor toolchain: the hand-rolled IR and its *)
(* passes (MagolorCompiler/src/modules/ir), the stack bytecode compiler    *)
(* and VM (Magpie/MagpieRuntime/src/modules/bytecode.rs), the REPL         *)
(* (Magpie/MagpieRuntime/src/main.rs) and the script engine                *)
(* (src/modules/ffi.rs).                                                   *)
(*                                                                         *)
(* Every component has its own state variable and its own specification    *)
(* (SpecDCE, SpecFold, ...); a component's specification pins the other    *)
(* components' variables to Idle.                                          *)
(***************************************************************************)
EXTENDS Integers, Sequences, FiniteSets, TLC

VARIABLES dce, cf, ph, ssa, ra, bld, vm, optz, cfa, inl, repl, strs, eng

vars == <<dce, cf, ph, ssa, ra, bld, vm, optz, cfa, inl, repl, strs, eng>>

Idle == [phase |-> "idle"]

\* the one element of a singleton set; Only({e(x) : x \in {v}}) is e(v) with v
\* evaluated once
Only(S) == CHOOSE x \in S : TRUE

(***************************************************************************)
(* Generic helpers                                                         *)
(***************************************************************************)
SetMin(S) == CHOOSE x \in S : \A y \in S : x <= y

SetMax(S) == CHOOSE x \in S : \A y \in S : y <= x

SeqToSet(s) == {s[i] : i \in 1..Len(s)}

Last(s) == s[Len(s)]

RECURSIVE FlattenSeq(_)
FlattenSeq(ss) == IF ss = <<>> THEN <<>> ELSE Head(ss) \o FlattenSeq(Tail(ss))

(***************************************************************************)
(* IR data model (ir_types.rs)                                             *)
(***************************************************************************)
\* IRValue: Register(n) | Constant(c) | Local(n) | Argument(n) | Undef
Reg(n) == [k |-> "reg", ty |-> "", v |-> n]

Const(ty, n) == [k |-> "const", ty |-> ty, v |-> n]

Local(n) == [k |-> "local", ty |-> "", v |-> n]

Argument(n) == [k |-> "arg", ty |-> "", v |-> n]

Undef == [k |-> "undef", ty |-> "", v |-> 0]

IsReg(val) == val.k = "reg"

IsConst(val) == val.k = "const"

\* Option<usize>::None for a destination or a branch target
None == -1

\* IRInstruction, in one shape: op, dst (None when the variant has none),
\* the operand values in declaration order, the branch targets, the type.
\*   Add/Sub/...: args = <<lhs, rhs>>     Move/Not/Cast: args = <<src>>
\*   Load: args = <<addr>>                Store: args = <<addr, value>>
\*   Return: args = <<value>> or <<>>     CondBranch: args = <<cond>>, t, f
\*   Branch: t                            Call: args = the call's arguments
Ins(op, dst, args, t, f, ty) ==
    [op |-> op, dst |-> dst, args |-> args, t |-> t, f |-> f, ty |-> ty]

Add(dst, lhs, rhs, ty) == Ins("Add", dst, <<lhs, rhs>>, None, None, ty)

Sub(dst, lhs, rhs, ty) == Ins("Sub", dst, <<lhs, rhs>>, None, None, ty)

Mul(dst, lhs, rhs, ty) == Ins("Mul", dst, <<lhs, rhs>>, None, None, ty)

Div(dst, lhs, rhs, ty) == Ins("Div", dst, <<lhs, rhs>>, None, None, ty)

Cmp(dst, lhs, rhs, ty) == Ins("Cmp", dst, <<lhs, rhs>>, None, None, ty)

Move(dst, src) == Ins("Move", dst, <<src>>, None, None, "")

Load(dst, addr, ty) == Ins("Load", dst, <<addr>>, None, None, ty)

Store(addr, value, ty) == Ins("Store", None, <<addr, value>>, None, None, ty)

Alloca(dst, ty) == Ins("Alloca", dst, <<>>, None, None, ty)

Phi(dst, ty) == Ins("Phi", dst, <<>>, None, None, ty)

Call(dst, args, ty) == Ins("Call", dst, args, None, None, ty)

Branch(target) == Ins("Branch", None, <<>>, target, None, "")

CondBranch(cond, tt, ft) == Ins("CondBranch", None, <<cond>>, tt, ft, "")

Return(args) == Ins("Return", None, args, None, None, "")

\* IRBasicBlock::new(id)
IRBasicBlock(id) ==
    [id |-> id, instructions |-> <<>>, predecessors |-> <<>>,
     successors |-> <<>>, dominators |-> <<>>, dom_frontier |-> <<>>]

Terminators == {"Branch", "CondBranch", "Return"}

\* the registers an instruction reads: every Register among its operands
ReadRegs(instr) == {instr.args[i].v : i \in {j \in 1..Len(instr.args) : IsReg(instr.args[j])}}

\* the instructions of a function, in block order
AllInstrs(func) == FlattenSeq([i \in 1..Len(func.blocks) |-> func.blocks[i].instructions])

\* the registers some instruction of the function defines
DefinedRegs(func) == {i.dst : i \in {x \in SeqToSet(AllInstrs(func)) : x.dst # None}}

(***************************************************************************)
(* Machine integers at their real width: an i32 is 4 bytes and an i64 is 8 *)
(* bytes, least significant first, in two's complement.  The operators are *)
(* Rust's wrapping_add, wrapping_sub, wrapping_mul and wrapping_div.       *)
(***************************************************************************)
RECURSIVE ToWord(_, _)
ToWord(n, len) == IF len = 0 THEN <<>> ELSE <<n % 256>> \o ToWord(n \div 256, len - 1)

ZeroWord(len) == [i \in 1..len |-> 0]

IsNegWord(w) == w[Len(w)] >= 128

NotWord(w) == [i \in 1..Len(w) |-> 255 - w[i]]

\* a + b + carry, truncated to the operands' length
RECURSIVE AddC(_, _, _)
AddC(a, b, carry) ==
    IF a = <<>> THEN <<>>
    ELSE LET s == Head(a) + Head(b) + carry
         IN <<s % 256>> \o AddC(Tail(a), Tail(b), s \div 256)

wrapping_add(a, b) == Only({AddC(x, y, 0) : x \in {a}, y \in {b}})

wrapping_sub(a, b) == Only({AddC(x, NotWord(y), 1) : x \in {a}, y \in {b}})

wrapping_neg(a) == Only({AddC(NotWord(x), ZeroWord(Len(x)), 1) : x \in {a}})

\* a * d + carry for one byte d, truncated
RECURSIVE MulByte(_, _, _)
MulByte(a, d, carry) ==
    IF a = <<>> THEN <<>>
    ELSE LET s == Head(a) * d + carry
         IN <<s % 256>> \o MulByte(Tail(a), d, s \div 256)

Shl8(a) == <<0>> \o SubSeq(a, 1, Len(a) - 1)

RECURSIVE MulFrom(_, _, _)
MulFrom(a, b, i) ==
    IF i > Len(b) THEN ZeroWord(Len(a))
    ELSE wrapping_add(MulByte(a, b[i], 0), Shl8(MulFrom(a, b, i + 1)))

wrapping_mul(a, b) == Only({MulFrom(x, y, 1) : x \in {a}, y \in {b}})

\* unsigned order
ULess(a, b) == \E i \in 1..Len(a) : a[i] < b[i] /\ \A j \in (i + 1)..Len(a) : a[j] = b[j]

\* bit k of a, bit 0 the least significant
Bit(a, k) == (a[(k \div 8) + 1] \div (2 ^ (k % 8))) % 2

\* unsigned a / b by restoring division from bit k down; b # 0, rem < b
RECURSIVE UDivFrom(_, _, _, _, _)
UDivFrom(a, b, k, quo, rem) ==
    IF k < 0 THEN quo
    ELSE LET r1 == AddC(rem, rem, Bit(a, k))
             ge == ~ULess(r1, b)
         IN Only({IF Len(q1) = Len(r2) THEN UDivFrom(a, b, k - 1, q1, r2) ELSE q1 :
                    q1 \in {AddC(quo, quo, IF ge THEN 1 ELSE 0)},
                    r2 \in {IF ge THEN wrapping_sub(r1, b) ELSE r1}})

UAbs(a) == IF IsNegWord(a) THEN wrapping_neg(a) ELSE a

\* signed division truncating toward zero; MIN / -1 wraps to MIN; b # 0
wrapping_div(a, b) ==
    Only({IF IsNegWord(a) # IsNegWord(b) THEN wrapping_neg(q) ELSE q :
            q \in {Only({UDivFrom(x, y, 8 * Len(x) - 1, ZeroWord(Len(x)), ZeroWord(Len(x))) :
                           x \in {UAbs(a)}, y \in {UAbs(b)}})}})

\* IRConstant::I32(n) and IRConstant::I64(n) for a small n
I32(n) == Const("I32", ToWord(n, 4))

I64(n) == Const("I64", ToWord(n, 8))

(***************************************************************************)
(* control_flow.rs: CFG edges                                              *)
(***************************************************************************)
get_successors(block) ==
    IF block.instructions = <<>> THEN <<>>
    ELSE LET last == Last(block.instructions)
         IN CASE last.op = "Branch" -> <<last.t>>
              [] last.op = "CondBranch" -> <<last.t, last.f>>
              [] OTHER -> <<>>

\* build_cfg, the successor edges of the block at position i (1-based here):
\* a target that is no position of the block vector is skipped
cfg_successors(func, i) ==
    SelectSeq(get_successors(func.blocks[i]), LAMBDA s : s < Len(func.blocks))

\* a build_cfg that records a predecessor for the first listed target only
RECURSIVE cfg_predecessors_first_target(_, _, _)
cfg_predecessors_first_target(func, j, i) ==
    IF i > Len(func.blocks) THEN <<>>
    ELSE (IF cfg_successors(func, i) # <<>> /\ Head(cfg_successors(func, i)) = j - 1
          THEN <<i - 1>> ELSE <<>>)
         \o cfg_predecessors_first_target(func, j, i + 1)

\* build_cfg, the predecessor list of the block at position j: position i is
\* pushed once per edge i -> j, for i in increasing order
RECURSIVE cfg_predecessors(_, _, _)
cfg_predecessors(func, j, i) ==
    IF i > Len(func.blocks) THEN <<>>
    ELSE [k \in 1..Len(SelectSeq(cfg_successors(func, i), LAMBDA s : s = j - 1)) |-> i - 1]
         \o cfg_predecessors(func, j, i + 1)

build_cfg(func) ==
    [func EXCEPT !.blocks =
        [i \in 1..Len(func.blocks) |->
            [func.blocks[i] EXCEPT !.successors = cfg_successors(func, i),
                                   !.predecessors = cfg_predecessors(func, i, 1)]]]

(***************************************************************************)
(* dead_code_elimination.rs                                                *)
(***************************************************************************)
\* mark_reachable_blocks: depth-first from block_id over the successor list
\* and the terminator's targets; live is self.live_blocks
RECURSIVE mark_reachable_blocks(_, _, _), mark_reachable_list(_, _, _)
mark_reachable_blocks(func, block_id, live) ==
    IF block_id \in live \/ block_id >= Len(func.blocks) THEN live
    ELSE LET live1 == live \cup {block_id}
             found == {i \in 1..Len(func.blocks) : func.blocks[i].id = block_id}
         IN IF found = {} THEN live1
            ELSE LET block == func.blocks[SetMin(found)]
                     live2 == mark_reachable_list(func, block.successors, live1)
                 IN mark_reachable_list(func, get_successors(block), live2)

mark_reachable_list(func, targets, live) ==
    IF targets = <<>> THEN live
    ELSE mark_reachable_list(func, Tail(targets),
                             mark_reachable_blocks(func, Head(targets), live))

\* mark_value_live over the operands mark_instruction_operands looks at
mark_instruction_operands(instr) ==
    LET regsOf(vals) == {vals[i].v : i \in {j \in 1..Len(vals) : IsReg(vals[j])}}
    IN CASE instr.op = "Return" -> regsOf(instr.args)
         [] instr.op = "Store" -> regsOf(<<instr.args[2]>>)
         [] instr.op \in {"Call", "IndirectCall"} -> regsOf(instr.args)
         [] instr.op = "CondBranch" -> regsOf(instr.args)
         [] OTHER -> {}

mark_live_registers(func) ==
    UNION {mark_instruction_operands(i) : i \in SeqToSet(AllInstrs(func))}

is_instruction_live(instr, live_registers) ==
    CASE instr.op \in {"Return", "Branch", "CondBranch", "Store", "Call", "IndirectCall"} -> TRUE
      [] instr.op = "Intrinsic" -> IF instr.dst # None THEN instr.dst \in live_registers ELSE TRUE
      [] OTHER -> instr.dst \in live_registers

\* eliminate_dead_code: the function after the pass, and the bool it returns
eliminate_dead_code(func) ==
    LET live_blocks == mark_reachable_blocks(func, 0, {})
        kept == [func EXCEPT !.blocks = SelectSeq(func.blocks, LAMBDA b : b.id \in live_blocks)]
        blocks_removed == Len(kept.blocks) # Len(func.blocks)
        live_registers == mark_live_registers(kept)
        swept == [kept EXCEPT !.blocks =
                    [i \in 1..Len(kept.blocks) |->
                        [kept.blocks[i] EXCEPT !.instructions =
                            SelectSeq(kept.blocks[i].instructions,
                                      LAMBDA x : is_instruction_live(x, live_registers))]]]
        instrs_removed == \E i \in 1..Len(kept.blocks) :
                            Len(swept.blocks[i].instructions) # Len(kept.blocks[i].instructions)
    IN [func |-> swept, changed |-> blocks_removed \/ instrs_removed]

(***************************************************************************)
(* The functions the DCE pass is run on: MaxBlocks blocks numbered by      *)
(* position as the builder numbers them, each ending in a terminator, the  *)
(* entry block holding one of the bodies the builder emits for a statement *)
(***************************************************************************)
MaxBlocks == 3

MaxPasses == 3

BlockIds == 0..(MaxBlocks - 1)

\* Return r1 when the body computes r1, else a constant
TermChoices(retval) ==
    {Return(<<retval>>)}
    \cup {Branch(t) : t \in BlockIds}
    \cup {CondBranch(Argument(0), t, f) : t \in BlockIds, f \in BlockIds}

\* return 2 + 3 * 4;   x = x + 1 with the sum unused;   *p = 7;   nothing
DceBodies ==
    { [code |-> <<Mul(0, I32(3), I32(4), "I32"),
                  Add(1, I32(2), Reg(0), "I32")>>, ret |-> Reg(1)],
      [code |-> <<Load(0, Local(0), "I32"),
                  Add(1, Reg(0), I32(1), "I32")>>, ret |-> I32(0)],
      [code |-> <<Load(0, Local(0), "I64"),
                  Store(Reg(0), I32(7), "I32")>>, ret |-> I32(0)],
      [code |-> <<>>, ret |-> I32(0)] }

DceFunction(body, terms) ==
    [blocks |-> [i \in 1..MaxBlocks |->
        [IRBasicBlock(i - 1) EXCEPT
            !.instructions = (IF i = 1 THEN body.code ELSE <<>>) \o <<terms[i]>>]]]

InitDCE ==
    /\ \E body \in DceBodies, edges \in BOOLEAN :
        \E terms \in [1..MaxBlocks -> TermChoices(body.ret)] :
          LET f == DceFunction(body, terms)
              g == IF edges THEN build_cfg(f) ELSE f
          IN dce = [orig |-> g, prev |-> g, func |-> g, passes |-> 0, changed |-> FALSE]
    /\ cf = Idle /\ ph = Idle /\ ssa = Idle /\ ra = Idle /\ bld = Idle /\ vm = Idle
    /\ optz = Idle /\ cfa = Idle /\ inl = Idle /\ repl = Idle /\ strs = Idle /\ eng = Idle

\* DeadCodeEliminator::run on the function, once per optimizer iteration
RunDCE ==
    /\ dce.passes < MaxPasses
    /\ LET r == eliminate_dead_code(dce.func)
       IN dce' = [dce EXCEPT !.prev = dce.func, !.func = r.func,
                             !.passes = dce.passes + 1, !.changed = r.changed]
    /\ UNCHANGED <<cf, ph, ssa, ra, bld, vm, optz, cfa, inl, repl, strs, eng>>

NextDCE == RunDCE

SpecDCE == InitDCE /\ [][NextDCE]_vars

\* the block ids reachable from block 0 by following terminator targets
RECURSIVE ReachableFrom(_, _)
ReachableFrom(func, seen) ==
    LET ids == {func.blocks[i].id : i \in 1..Len(func.blocks)}
        step == seen \cup
                  {t \in ids : \E i \in 1..Len(func.blocks) :
                        /\ func.blocks[i].id \in seen
                        /\ t \in SeqToSet(get_successors(func.blocks[i]))}
    IN IF step = seen THEN seen ELSE ReachableFrom(func, step)

BlockIdsOf(func) == {func.blocks[i].id : i \in 1..Len(func.blocks)}

\* C1: dead-code elimination never deletes the definition of a register that
\* an instruction it keeps still reads (an operand of a kept Add, the address
\* register of a kept Store): every register a kept instruction reads and the
\* function defined before the pass is still defined after it.
C1_DcePreservesOperands ==
    dce.passes >= 1 =>
        \A x \in SeqToSet(AllInstrs(dce.func)) :
            \A r \in ReadRegs(x) :
                r \in DefinedRegs(dce.prev) => r \in DefinedRegs(dce.func)

\* C8: after dead-code elimination, applied once or repeatedly, the blocks
\* remaining are exactly those reachable from block 0 by terminator targets.
C8_DceKeepsExactlyReachable ==
    dce.passes >= 1 => BlockIdsOf(dce.func) = ReachableFrom(dce.orig, {0})

(***************************************************************************)
(* Binary floating point: (-1)^neg * m * 2^e with m odd, or m = 0 for a    *)
(* signed zero.  f32 keeps 24 mantissa bits and f64 keeps 53; a result is  *)
(* rounded to nearest, ties to even.  Quotients that are no dyadic         *)
(* rationals have no finite form here: float_div is applied only when the  *)
(* divisor's mantissa divides the dividend's.                              *)
(***************************************************************************)
RECURSIVE Normalize(_, _, _)
Normalize(neg, m, e) ==
    IF m = 0 THEN [neg |-> neg, m |-> 0, e |-> 0]
    ELSE IF m % 2 = 0 THEN Normalize(neg, m \div 2, e + 1)
    ELSE [neg |-> neg, m |-> m, e |-> e]

RECURSIVE BitLen(_)
BitLen(m) == IF m = 0 THEN 0 ELSE 1 + BitLen(m \div 2)

MantissaBits(ty) == IF ty = "F32" THEN 24 ELSE 53

RoundFloat(x, ty) ==
    LET k == BitLen(x.m) - MantissaBits(ty)
    IN IF k <= 0 THEN x
       ELSE LET ulp == 2 ^ k
                lo == x.m \div ulp
                r == x.m % ulp
                up == 2 * r > ulp \/ (2 * r = ulp /\ lo % 2 = 1)
            IN Normalize(x.neg, IF up THEN lo + 1 ELSE lo, x.e + k)

\* OrderedFloat::as_f32 and OrderedFloat::as_f64
as_f32(x) == RoundFloat(x, "F32")

as_f64(x) == x

\* the signed integer x.m * 2^(x.e - e0), for e0 <= x.e or x a zero
Scaled(x, e0) == IF x.m = 0 THEN 0 ELSE (IF x.neg THEN 0 - x.m ELSE x.m) * 2 ^ (x.e - e0)

float_add(a, b, ty) ==
    LET e0 == IF a.m = 0 THEN b.e ELSE IF b.m = 0 THEN a.e
              ELSE IF a.e < b.e THEN a.e ELSE b.e
        s == Scaled(a, e0) + Scaled(b, e0)
    IN IF s = 0 THEN Normalize(a.m = 0 /\ b.m = 0 /\ a.neg /\ b.neg, 0, 0)
       ELSE RoundFloat(Normalize(s < 0, IF s < 0 THEN 0 - s ELSE s, e0), ty)

float_sub(a, b, ty) == float_add(a, [b EXCEPT !.neg = ~b.neg], ty)

float_mul(a, b, ty) == RoundFloat(Normalize(a.neg # b.neg, a.m * b.m, a.e + b.e), ty)

float_div(a, b, ty) == RoundFloat(Normalize(a.neg # b.neg, a.m \div b.m, a.e - b.e), ty)

(***************************************************************************)
(* constant_folding.rs                                                     *)
(***************************************************************************)
\* Option::None of fold_add .. fold_div, and of fold_instruction
NoConst == [k |-> "none", ty |-> "", v |-> 0]

NoInstr == Ins("None", None, <<>>, None, None, "")

fold_add(c1, c2) ==
    CASE c1.ty = "I32" /\ c2.ty = "I32" -> Const("I32", wrapping_add(c1.v, c2.v))
      [] c1.ty = "I64" /\ c2.ty = "I64" -> Const("I64", wrapping_add(c1.v, c2.v))
      [] c1.ty = "F32" /\ c2.ty = "F32" -> Const("F32", float_add(as_f32(c1.v), as_f32(c2.v), "F32"))
      [] c1.ty = "F64" /\ c2.ty = "F64" -> Const("F64", float_add(as_f64(c1.v), as_f64(c2.v), "F64"))
      [] OTHER -> NoConst

fold_sub_swapped(c1, c2) ==
    CASE c1.ty = "I32" /\ c2.ty = "I32" -> Const("I32", wrapping_sub(c2.v, c1.v))
      [] c1.ty = "I64" /\ c2.ty = "I64" -> Const("I64", wrapping_sub(c2.v, c1.v))
      [] c1.ty = "F32" /\ c2.ty = "F32" -> Const("F32", float_sub(as_f32(c2.v), as_f32(c1.v), "F32"))
      [] c1.ty = "F64" /\ c2.ty = "F64" -> Const("F64", float_sub(as_f64(c2.v), as_f64(c1.v), "F64"))
      [] OTHER -> NoConst

fold_sub(c1, c2) ==
    CASE c1.ty = "I32" /\ c2.ty = "I32" -> Const("I32", wrapping_sub(c1.v, c2.v))
      [] c1.ty = "I64" /\ c2.ty = "I64" -> Const("I64", wrapping_sub(c1.v, c2.v))
      [] c1.ty = "F32" /\ c2.ty = "F32" -> Const("F32", float_sub(as_f32(c1.v), as_f32(c2.v), "F32"))
      [] c1.ty = "F64" /\ c2.ty = "F64" -> Const("F64", float_sub(as_f64(c1.v), as_f64(c2.v), "F64"))
      [] OTHER -> NoConst

fold_mul(c1, c2) ==
    CASE c1.ty = "I32" /\ c2.ty = "I32" -> Const("I32", wrapping_mul(c1.v, c2.v))
      [] c1.ty = "I64" /\ c2.ty = "I64" -> Const("I64", wrapping_mul(c1.v, c2.v))
      [] c1.ty = "F32" /\ c2.ty = "F32" -> Const("F32", float_mul(as_f32(c1.v), as_f32(c2.v), "F32"))
      [] c1.ty = "F64" /\ c2.ty = "F64" -> Const("F64", float_mul(as_f64(c1.v), as_f64(c2.v), "F64"))
      [] OTHER -> NoConst

fold_div(c1, c2) ==
    CASE c1.ty = "I32" /\ c2.ty = "I32" /\ c2.v # ZeroWord(4) ->
            Const("I32", wrapping_div(c1.v, c2.v))
      [] c1.ty = "I64" /\ c2.ty = "I64" /\ c2.v # ZeroWord(8) ->
            Const("I64", wrapping_div(c1.v, c2.v))
      [] c1.ty = "F32" /\ c2.ty = "F32" /\ as_f32(c2.v).m # 0 ->
            Const("F32", float_div(as_f32(c1.v), as_f32(c2.v), "F32"))
      [] c1.ty = "F64" /\ c2.ty = "F64" /\ as_f64(c2.v).m # 0 ->
            Const("F64", float_div(as_f64(c1.v), as_f64(c2.v), "F64"))
      [] OTHER -> NoConst

fold_instruction(instr) ==
    IF instr.op \in {"Add", "Sub", "Mul", "Div"}
       /\ IsConst(instr.args[1]) /\ IsConst(instr.args[2])
    THEN LET c1 == instr.args[1]
             c2 == instr.args[2]
             result == CASE instr.op = "Add" -> fold_add(c1, c2)
                         [] instr.op = "Sub" -> fold_sub(c1, c2)
                         [] instr.op = "Mul" -> fold_mul(c1, c2)
                         [] instr.op = "Div" -> fold_div(c1, c2)
         IN IF result # NoConst THEN Move(instr.dst, result) ELSE NoInstr
    ELSE NoInstr

\* fold_block: the instruction list after the pass, and the bool it returns
fold_block(instructions) ==
    LET folded == [i \in 1..Len(instructions) |-> fold_instruction(instructions[i])]
    IN [instructions |-> [i \in 1..Len(instructions) |->
                            IF folded[i] # NoInstr THEN folded[i] ELSE instructions[i]],
        changed |-> \E i \in 1..Len(instructions) : folded[i] # NoInstr]

(***************************************************************************)
(* The instructions the folder is run on: one arithmetic instruction over  *)
(* two operands drawn from the boundary values of each constant type, a    *)
(* pair of differently typed constants, or a register operand              *)
(***************************************************************************)
MinWord(len) == [i \in 1..len |-> IF i = len THEN 128 ELSE 0]

MaxWord(len) == [i \in 1..len |-> IF i = len THEN 127 ELSE 255]

IntSamples(len) ==
    {ToWord(n, len) : n \in {0, 1, -1, 2, 3, -7, 46341, 65536}}
    \cup {MinWord(len), MaxWord(len)}

\* 0.0, -0.0, 1.0, 2.0, 0.5, -1.5, 3.0, 6.0, 16777216.0
FloatSamples ==
    {Normalize(FALSE, 0, 0), Normalize(TRUE, 0, 0), Normalize(FALSE, 1, 0),
     Normalize(FALSE, 2, 0), Normalize(FALSE, 1, -1), Normalize(TRUE, 3, -1),
     Normalize(FALSE, 3, 0), Normalize(FALSE, 6, 0), Normalize(FALSE, 1, 24)}

ConstSamples(ty) ==
    CASE ty = "I8" -> {Const(ty, ToWord(n, 1)) : n \in {0, 1, -1, 100}}
      [] ty = "I16" -> {Const(ty, ToWord(n, 2)) : n \in {0, 1, -1, 30000}}
      [] ty = "I32" -> {Const(ty, w) : w \in IntSamples(4)}
      [] ty = "I64" -> {Const(ty, w) : w \in IntSamples(8) \cup {<<0, 0, 0, 0, 1, 0, 0, 0>>}}
      [] ty \in {"F32", "F64"} -> {Const(ty, x) : x \in FloatSamples}

NumericTypes == {"I8", "I16", "I32", "I64", "F32", "F64"}

\* a float quotient is sampled only when it is a dyadic rational
Sampled(op, lhs, rhs) ==
    (op = "Div" /\ IsConst(lhs) /\ IsConst(rhs) /\ lhs.ty = rhs.ty /\ lhs.ty \in {"F32", "F64"})
        => (rhs.v.m = 0 \/ lhs.v.m % rhs.v.m = 0)

FoldOperandPairs ==
    UNION {ConstSamples(ty) \X ConstSamples(ty) : ty \in NumericTypes}
    \cup {<<I32(6), I64(3)>>,
          <<Const("F32", Normalize(FALSE, 3, 0)), Const("F64", Normalize(FALSE, 3, 0))>>,
          <<Reg(0), I32(0)>>,
          <<I32(6), Reg(0)>>}

\* x / 0 and x / -0.0, the second instruction of the block
DivByZero ==
    {Div(2, I32(7), I32(0), "I32"),
     Div(2, Const("F64", Normalize(FALSE, 1, 0)), Const("F64", Normalize(TRUE, 0, 0)), "F64")}

InitFold ==
    /\ \E op \in {"Add", "Sub", "Mul", "Div"} :
        \E pair \in {p \in FoldOperandPairs : Sampled(op, p[1], p[2])}, divz \in DivByZero :
           cf = [block |-> [IRBasicBlock(0) EXCEPT !.instructions =
                                <<Ins(op, 1, <<pair[1], pair[2]>>, None, None,
                                      IF IsConst(pair[1]) THEN pair[1].ty ELSE "I32"),
                                  divz, Return(<<Reg(1)>>)>>],
                 orig |-> <<>>, changed |-> FALSE, done |-> FALSE]
    /\ dce = Idle /\ ph = Idle /\ ssa = Idle /\ ra = Idle /\ bld = Idle /\ vm = Idle
    /\ optz = Idle /\ cfa = Idle /\ inl = Idle /\ repl = Idle /\ strs = Idle /\ eng = Idle

\* ConstantFolder::run on the function holding the block
RunFold ==
    /\ ~cf.done
    /\ LET r == fold_block(cf.block.instructions)
       IN cf' = [block |-> [cf.block EXCEPT !.instructions =
                                IF r.changed THEN r.instructions ELSE @],
                 orig |-> cf.block.instructions, changed |-> r.changed, done |-> TRUE]
    /\ UNCHANGED <<dce, ph, ssa, ra, bld, vm, optz, cfa, inl, repl, strs, eng>>

NextFold == RunFold

SpecFold == InitFold /\ [][NextFold]_vars

(***************************************************************************)
(* What an arithmetic operation evaluates to, stated over the integers:    *)
(* a word's value is known by its residues modulo nine primes whose        *)
(* product exceeds 2^129, so an identity between values below that size    *)
(* holds exactly when it holds modulo each of them.                        *)
(***************************************************************************)
Moduli == {46337, 46327, 46309, 46307, 46301, 46279, 46273, 46271, 46261}

RECURSIVE UMod(_, _)
UMod(w, p) == IF w = <<>> THEN 0 ELSE (Head(w) + 256 * UMod(Tail(w), p)) % p

\* 2^(8 * len) modulo p
RECURSIVE Pow256Mod(_, _)
Pow256Mod(len, p) == IF len = 0 THEN 1 ELSE (256 * Pow256Mod(len - 1, p)) % p

\* the signed value of w modulo p
SMod(w, p) == (UMod(w, p) - (IF IsNegWord(w) THEN Pow256Mod(Len(w), p) ELSE 0)) % p

SignExt(w, len) ==
    [i \in 1..len |-> IF i <= Len(w) THEN w[i] ELSE IF IsNegWord(w) THEN 255 ELSE 0]

ZeroExt(w, len) == [i \in 1..len |-> IF i <= Len(w) THEN w[i] ELSE 0]

\* c is the two's-complement wrapped value of a op b
IntResult(op, a, b, c) ==
    LET n == Len(a)
        A == SignExt(a, 2 * n)
        B == SignExt(b, 2 * n)
    IN CASE op = "Add" ->
              \E k \in {-1, 0, 1} : \A p \in Moduli :
                  SMod(c, p) = (SMod(a, p) + SMod(b, p) - k * Pow256Mod(n, p)) % p
         [] op = "Sub" ->
              \E k \in {-1, 0, 1} : \A p \in Moduli :
                  SMod(c, p) = (SMod(a, p) - SMod(b, p) - k * Pow256Mod(n, p)) % p
         [] op = "Mul" ->
              LET P == wrapping_mul(A, B)
              IN /\ \A p \in Moduli : SMod(P, p) = (SMod(a, p) * SMod(b, p)) % p
                 /\ c = SubSeq(P, 1, n)
         [] op = "Div" ->
              \E Q \in {SignExt(c, 2 * n), ZeroExt(c, 2 * n)} :
                  LET R == wrapping_sub(A, wrapping_mul(Q, B))
                  IN /\ \A p \in Moduli :
                          SMod(A, p) = (SMod(Q, p) * SMod(B, p) + SMod(R, p)) % p
                     /\ ULess(UAbs(R), UAbs(B))
                     /\ R = ZeroWord(2 * n) \/ IsNegWord(R) = IsNegWord(A)

Abs(n) == IF n < 0 THEN 0 - n ELSE n

\* c is the float of the given mantissa width nearest x * 2^e0 (x an integer,
\* x # 0), ties going to the even mantissa
NearestFloat(c, x, e0, bits) ==
    LET k == BitLen(Abs(x)) - bits
        C == c.m * 2 ^ (c.e - e0)
    IN /\ c.m # 0 /\ c.neg = (x < 0)
       /\ IF k <= 0 THEN c.e >= e0 /\ C = Abs(x)
          ELSE /\ c.e >= e0 + k
               /\ 2 * Abs(C - Abs(x)) <= 2 ^ k
               /\ 2 * Abs(C - Abs(x)) = 2 ^ k => (C \div (2 ^ k)) % 2 = 0

\* c is the IEEE-754 value of a op b in the type ty
FloatResult(op, a, b, c, ty) ==
    LET bits == MantissaBits(ty)
        e0 == IF a.e < b.e THEN a.e ELSE b.e
        sb == IF op = "Sub" THEN 0 - Scaled(b, e0) ELSE Scaled(b, e0)
        sum == Scaled(a, e0) + sb
        bneg == IF op = "Sub" THEN ~b.neg ELSE b.neg
    IN CASE op \in {"Add", "Sub"} ->
              IF sum = 0 THEN c.m = 0 /\ c.neg = (a.m = 0 /\ b.m = 0 /\ a.neg /\ bneg)
              ELSE NearestFloat(c, sum, e0, bits)
         [] op = "Mul" ->
              IF a.m = 0 \/ b.m = 0 THEN c.m = 0 /\ c.neg = (a.neg # b.neg)
              ELSE NearestFloat(c, Scaled(a, a.e) * Scaled(b, b.e), a.e + b.e, bits)
         [] op = "Div" ->
              /\ c.neg = (a.neg # b.neg)
              /\ c.m * b.m = a.m
              /\ a.m # 0 => c.e + b.e = a.e

IsZeroConst(c) ==
    IF c.ty \in {"F32", "F64"} THEN c.v.m = 0 ELSE c.v = ZeroWord(Len(c.v))

ArithOps == {"Add", "Sub", "Mul", "Div"}

\* C10: whenever constant folding replaces an Add, Sub, Mul or Div whose two
\* operands are constants of the same numeric type by Move dst <- c, c has
\* that type and equals the result of the operation on the operands, wrapped
\* in two's complement for I32 and I64; and a Div whose divisor is the
\* constant zero is never folded: it stays as it was.
C10_FoldedConstantIsTheResult ==
    cf.done =>
        \A i \in 1..Len(cf.orig) :
            LET x == cf.orig[i]
                y == cf.block.instructions[i]
            IN /\ (x.op \in ArithOps /\ y # x) =>
                    /\ IsConst(x.args[1]) /\ IsConst(x.args[2])
                    /\ x.args[1].ty = x.args[2].ty
                    /\ y.op = "Move" /\ y.dst = x.dst
                    /\ IsConst(y.args[1]) /\ y.args[1].ty = x.args[1].ty
                    /\ IF x.args[1].ty \in {"F32", "F64"}
                       THEN FloatResult(x.op, x.args[1].v, x.args[2].v, y.args[1].v, x.args[1].ty)
                       ELSE IntResult(x.op, x.args[1].v, x.args[2].v, y.args[1].v)
               /\ (x.op = "Div" /\ IsConst(x.args[2]) /\ IsZeroConst(x.args[2])) => y = x

\* an I64 product that overflows was folded to its wrapped value, next to a
\* division by the constant zero that was left alone
C10_Witness_WrappedMulFolded ==
    /\ cf.done /\ cf.changed
    /\ cf.orig[1] = Mul(1, Const("I64", MaxWord(8)), I64(3), "I64")
    /\ cf.block.instructions[1] =
          Move(1, Const("I64", <<253, 255, 255, 255, 255, 255, 255, 127>>))
    /\ cf.orig[2].op = "Div" /\ cf.orig[2].args[2] = I32(0)
    /\ cf.block.instructions[2] = cf.orig[2]

(***************************************************************************)
(* peephole.rs                                                             *)
(***************************************************************************)
And(dst, lhs, rhs) == Ins("And", dst, <<lhs, rhs>>, None, None, "")

Or(dst, lhs, rhs) == Ins("Or", dst, <<lhs, rhs>>, None, None, "")

Xor(dst, lhs, rhs) == Ins("Xor", dst, <<lhs, rhs>>, None, None, "")

\* matches!(v, IRValue::Constant(IRConstant::I32(n) | IRConstant::I64(n)))
IsIntConst(val, n) == val = I32(n) \/ val = I64(n)

\* try_pattern_match_single.  A Rust match takes the first arm whose pattern
\* matches: the arms at lines 115 and 125 repeat the pattern of the Mul arm
\* at line 105, and the arm at line 178 that of the Xor arm at line 168, so
\* control never enters them.
try_pattern_match_single(instr) ==
    LET dst == instr.dst
        lhs == instr.args[1]
        rhs == instr.args[2]
    IN CASE instr.op = "Add" -> IF IsIntConst(rhs, 0) THEN Move(dst, lhs) ELSE NoInstr
         [] instr.op = "Sub" -> IF IsIntConst(rhs, 0) THEN Move(dst, lhs) ELSE NoInstr
         [] instr.op = "Mul" -> IF IsIntConst(rhs, 0) THEN Move(dst, rhs) ELSE NoInstr
         [] instr.op = "Div" -> IF IsIntConst(rhs, 1) THEN Move(dst, lhs) ELSE NoInstr
         [] instr.op = "And" -> IF IsIntConst(rhs, 0) THEN Move(dst, rhs) ELSE NoInstr
         [] instr.op = "Or" -> IF IsIntConst(rhs, 0) THEN Move(dst, lhs) ELSE NoInstr
         [] instr.op = "Xor" -> IF IsIntConst(rhs, 0) THEN Move(dst, lhs) ELSE NoInstr
         [] OTHER -> NoInstr

\* try_pattern_match_pair: the replacement list, <<>> for None
try_pattern_match_pair(instr1, instr2) ==
    IF /\ instr1.op = "Move" /\ instr2.op = "Move"
       /\ IsReg(instr2.args[1]) /\ instr1.dst = instr2.args[1].v
    THEN <<Move(instr2.dst, instr1.args[1])>>
    ELSE IF /\ instr1.op = "Store" /\ instr2.op = "Load"
            /\ instr1.args[1] = instr2.args[1]
    THEN <<instr1, Move(instr2.dst, instr1.args[2])>>
    ELSE <<>>

(***************************************************************************)
(* What a block computes: the instructions run in order over a register    *)
(* file and a memory of local slots; what a caller can see is the value    *)
(* Return reads and the memory the Stores left.  A register that nothing   *)
(* defined holds whatever the register file held on entry.                 *)
(***************************************************************************)
RECURSIVE BitwiseByte(_, _, _, _)
BitwiseByte(op, x, y, k) ==
    IF k = 8 THEN 0
    ELSE LET bx == (x \div (2 ^ k)) % 2
             by == (y \div (2 ^ k)) % 2
             bit == CASE op = "And" -> bx * by
                      [] op = "Or" -> IF bx + by > 0 THEN 1 ELSE 0
                      [] op = "Xor" -> (bx + by) % 2
         IN bit * (2 ^ k) + BitwiseByte(op, x, y, k + 1)

Bitwise(op, a, b) == [i \in 1..Len(a) |-> BitwiseByte(op, a[i], b[i], 0)]

ValueOf(val, st) == IF IsReg(val) THEN st.regs[val.v] ELSE val.v

Exec(instr, st) ==
    LET a == ValueOf(instr.args[1], st)
        b == ValueOf(instr.args[2], st)
        set(w) == [st EXCEPT !.regs[instr.dst] = w]
    IN CASE instr.op = "Move" -> set(a)
         [] instr.op = "Add" -> set(wrapping_add(a, b))
         [] instr.op = "Sub" -> set(wrapping_sub(a, b))
         [] instr.op = "Mul" -> set(wrapping_mul(a, b))
         [] instr.op = "Div" -> set(wrapping_div(a, b))
         [] instr.op \in {"And", "Or", "Xor"} -> set(Bitwise(instr.op, a, b))
         [] instr.op = "Load" -> set(st.mem[instr.args[1].v])
         [] instr.op = "Store" -> [st EXCEPT !.mem[instr.args[1].v] = b]
         [] instr.op = "Return" -> [st EXCEPT !.ret = a]
         [] OTHER -> st

RECURSIVE RunBlock(_, _)
RunBlock(instructions, st) ==
    IF instructions = <<>> THEN st
    ELSE RunBlock(Tail(instructions), Exec(Head(instructions), st))

Observable(instructions, regs0, mem0) ==
    LET fin == RunBlock(instructions, [regs |-> regs0, mem |-> mem0, ret |-> <<>>])
    IN [ret |-> fin.ret, mem |-> fin.mem]

(***************************************************************************)
(* The blocks the peephole pass is run on: up to MaxInstrs instructions    *)
(* over registers 0..2 and the local slot 0, then Return of a register     *)
(***************************************************************************)
MaxInstrs == 2

PeepholePool ==
    LET srcs == {Reg(0), Reg(1)}
    IN {Move(d, x) : d \in {1, 2}, x \in srcs \cup {I32(6)}}
       \cup {Add(d, x, I32(0), "I32") : d \in {1, 2}, x \in srcs}
       \cup {Add(2, Reg(0), Reg(1), "I32")}
       \cup {Sub(1, x, I32(0), "I32") : x \in srcs}
       \cup {Mul(2, x, c, "I32") : x \in srcs, c \in {I32(0), I32(1), I32(4)}}
       \cup {Div(2, x, I32(1), "I32") : x \in srcs}
       \cup {And(1, x, I32(0)) : x \in srcs}
       \cup {Or(1, x, I32(0)) : x \in srcs}
       \cup {Xor(1, x, I32(0)) : x \in srcs}
       \cup {Xor(1, Reg(0), Reg(0))}
       \cup {Store(Local(0), x, "I32") : x \in srcs}
       \cup {Load(d, Local(0), "I32") : d \in {0, 1, 2}}

\* the register file on entry: two different fillings
EntryRegs ==
    {[r \in 0..2 |-> ToWord(100 + r, 4)], [r \in 0..2 |-> ToWord(0 - r, 4)]}

EntryMem == [a \in {0} |-> ToWord(41, 4)]

InitPeephole ==
    /\ \E n \in 1..MaxInstrs :
        \E body \in [1..n -> PeepholePool], r \in {1, 2}, regs0 \in EntryRegs :
            LET instrs == body \o <<Return(<<Reg(r)>>)>>
            IN ph = [orig |-> instrs, instructions |-> instrs, i |-> 0,
                     changed |-> FALSE, done |-> FALSE, rewrites |-> 0, regs0 |-> regs0]
    /\ dce = Idle /\ cf = Idle /\ ssa = Idle /\ ra = Idle /\ bld = Idle /\ vm = Idle
    /\ optz = Idle /\ cfa = Idle /\ inl = Idle /\ repl = Idle /\ strs = Idle /\ eng = Idle

\* optimize_block, one iteration of its while loop: the pair at i is replaced
PeepholePair ==
    /\ ~ph.done /\ ph.i + 1 < Len(ph.instructions)
    /\ LET r == try_pattern_match_pair(ph.instructions[ph.i + 1], ph.instructions[ph.i + 2])
       IN /\ r # <<>>
          /\ ph' = [ph EXCEPT !.instructions = SubSeq(@, 1, ph.i) \o r
                                                  \o SubSeq(@, ph.i + 3, Len(@)),
                              !.changed = TRUE, !.rewrites = @ + 1]
    /\ UNCHANGED <<dce, cf, ssa, ra, bld, vm, optz, cfa, inl, repl, strs, eng>>

PairMatches ==
    /\ ph.i + 1 < Len(ph.instructions)
    /\ try_pattern_match_pair(ph.instructions[ph.i + 1], ph.instructions[ph.i + 2]) # <<>>

\* no pair at i: the instruction at i is replaced, and i moves on
PeepholeSingle ==
    /\ ~ph.done /\ ph.i < Len(ph.instructions) /\ ~PairMatches
    /\ LET r == try_pattern_match_single(ph.instructions[ph.i + 1])
       IN /\ r # NoInstr
          /\ ph' = [ph EXCEPT !.instructions[ph.i + 1] = r, !.i = @ + 1,
                              !.changed = TRUE, !.rewrites = @ + 1]
    /\ UNCHANGED <<dce, cf, ssa, ra, bld, vm, optz, cfa, inl, repl, strs, eng>>

\* no pattern at i: i moves on
PeepholeSkip ==
    /\ ~ph.done /\ ph.i < Len(ph.instructions) /\ ~PairMatches
    /\ try_pattern_match_single(ph.instructions[ph.i + 1]) = NoInstr
    /\ ph' = [ph EXCEPT !.i = @ + 1]
    /\ UNCHANGED <<dce, cf, ssa, ra, bld, vm, optz, cfa, inl, repl, strs, eng>>

\* the loop ends and optimize_block returns changed
PeepholeReturn ==
    /\ ~ph.done /\ ph.i >= Len(ph.instructions)
    /\ ph' = [ph EXCEPT !.done = TRUE]
    /\ UNCHANGED <<dce, cf, ssa, ra, bld, vm, optz, cfa, inl, repl, strs, eng>>

NextPeephole == PeepholePair \/ PeepholeSingle \/ PeepholeSkip \/ PeepholeReturn

SpecPeephole == InitPeephole /\ [][NextPeephole]_vars

\* C9: every peephole replacement is equivalent to what it replaces: after
\* any single-instruction or two-instruction rewrite, the value the block's
\* Return reads and the memory its Stores leave are those of the block
\* before the pass, whatever the registers held on entry; this covers
\* y = x; z = y -> z = x when y is read after the pair.
C9_PeepholeRewritesAreEquivalent ==
    ph.rewrites >= 1 =>
        Observable(ph.instructions, ph.regs0, EntryMem) = Observable(ph.orig, ph.regs0, EntryMem)

\* The instructions the three rewrites x * 1 -> x, x * 2^k -> x << k and
\* x ^ x -> 0 apply to
IsPowerOfTwoConst(value) ==
    /\ IsConst(value) /\ value.ty = "I32"
    /\ \E k \in 1..30 : value.v = ToWord(2 ^ k, 4)

AwaitsListedRewrite(instr) ==
    \/ instr.op = "Mul" /\ IsIntConst(instr.args[2], 1)
    \/ instr.op = "Mul" /\ IsPowerOfTwoConst(instr.args[2])
    \/ instr.op = "Xor" /\ instr.args[1] = instr.args[2]

\* C12: the peephole pass performs every listed single-instruction rewrite:
\* once optimize_block has returned, no Mul by the constant 1, no Mul by an
\* I32 constant 2^k (k >= 1) and no Xor of a value with itself is left in the
\* block, just as no x+0, x-0, x*0, x/1, x&0, x|0 or x^0 is left
C12_ListedRewritesArePerformed ==
    ph.done => \A i \in 1..Len(ph.instructions) : ~AwaitsListedRewrite(ph.instructions[i])

(***************************************************************************)
(* ssa_transform.rs.  Blocks are addressed by their position in            *)
(* func.blocks, counted from 0 as in the code: position i is blocks[i + 1] *)
(***************************************************************************)
RECURSIVE SortedSeq(_)
SortedSeq(S) == IF S = {} THEN <<>> ELSE <<SetMin(S)>> \o SortedSeq(S \ {SetMin(S)})

get_defined_register(instr) ==
    CASE instr.op \in {"Add", "Sub", "Mul", "Div", "Mod", "And", "Or", "Xor", "Shl", "Shr",
                       "Not", "Cmp", "Load", "Alloca", "Cast", "Bitcast", "GetElementPtr",
                       "ExtractValue", "InsertValue", "Phi", "Select", "Move"} -> instr.dst
      [] instr.op \in {"Call", "IndirectCall", "Intrinsic"} -> instr.dst
      [] OTHER -> None

\* one round of the for loop of compute_dominance, from position i on: each
\* block's new set is computed from the sets already updated in this round
RECURSIVE dominance_round(_, _)
dominance_round(func, i) ==
    IF i >= Len(func.blocks) THEN func
    ELSE LET preds == func.blocks[i + 1].predecessors
             intersect == IF preds = <<>> THEN {}
                          ELSE {d \in SeqToSet(func.blocks[preds[1] + 1].dominators) :
                                  \A k \in 2..Len(preds) :
                                      d \in SeqToSet(func.blocks[preds[k] + 1].dominators)}
             sorted_dom == SortedSeq({i} \cup intersect)
         IN Only({dominance_round(next, i + 1) :
                    next \in {[func EXCEPT !.blocks[i + 1].dominators = sorted_dom]}})

RECURSIVE dominance_fixpoint(_)
dominance_fixpoint(func) ==
    Only({IF next = func THEN func ELSE dominance_fixpoint(next) :
            next \in {dominance_round(func, 1)}})

compute_dominance(func) ==
    LET n == Len(func.blocks)
    IN Only({dominance_fixpoint(entry) :
               entry \in {[func EXCEPT !.blocks = [i \in 1..n |->
                   [func.blocks[i] EXCEPT !.dominators =
                       IF i = 1 THEN <<0>> ELSE [k \in 1..n |-> k - 1]]]]}})

strictly_dominates(func, dom, node) ==
    dom # node /\ dom \in SeqToSet(func.blocks[node + 1].dominators)

\* the while loop of compute_dominance_frontiers for one predecessor: runner
\* climbs to the last dominator in its list that is not itself.  The loop has
\* no other exit than runner strictly dominating b or a block with no other
\* dominator: when runner comes back to a block it has left, it never ends.
RECURSIVE frontier_walk(_, _, _, _)
frontier_walk(func, b, runner, left) ==
    IF strictly_dominates(func, runner, b) THEN [func |-> func, hangs |-> FALSE]
    ELSE IF runner \in left THEN [func |-> func, hangs |-> TRUE]
    ELSE LET df == func.blocks[runner + 1].dom_frontier
             f1 == IF b \in SeqToSet(df) THEN func
                   ELSE [func EXCEPT !.blocks[runner + 1].dom_frontier = Append(df, b)]
             others == SelectSeq(func.blocks[runner + 1].dominators, LAMBDA d : d # runner)
         IN IF others = <<>> THEN [func |-> f1, hangs |-> FALSE]
            ELSE frontier_walk(f1, b, Last(others), left \cup {runner})

\* the loops over b and over the predecessors of b, from (b, k) on
RECURSIVE frontier_loops(_, _, _)
frontier_loops(func, b, k) ==
    IF b >= Len(func.blocks) THEN [func |-> func, hangs |-> FALSE]
    ELSE LET preds == func.blocks[b + 1].predecessors
         IN IF Len(preds) < 2 \/ k > Len(preds) THEN frontier_loops(func, b + 1, 1)
            ELSE LET r == frontier_walk(func, b, preds[k], {})
                 IN IF r.hangs THEN r ELSE frontier_loops(r.func, b, k + 1)

compute_dominance_frontiers(func) ==
    frontier_loops(
        [func EXCEPT !.blocks = [i \in 1..Len(func.blocks) |->
            [func.blocks[i] EXCEPT !.dom_frontier = <<>>]]], 0, 1)

\* insert_phi_nodes, defs[reg]: the position of the block of every
\* instruction that defines reg, in block order
def_blocks(func, reg) ==
    FlattenSeq([i \in 1..Len(func.blocks) |->
        [k \in 1..Len(SelectSeq(func.blocks[i].instructions,
                                LAMBDA x : get_defined_register(x) = reg)) |-> i - 1]])

def_registers(func) ==
    {get_defined_register(x) : x \in SeqToSet(AllInstrs(func))} \ {None}

\* the for loop over the frontier df of one block, from index k on
RECURSIVE phi_frontier(_, _, _, _, _)
phi_frontier(func, reg, df, k, work_list) ==
    IF k > Len(df) THEN [func |-> func, work_list |-> work_list]
    ELSE LET frontier_block == df[k]
             instrs == func.blocks[frontier_block + 1].instructions
             has_phi == \E x \in SeqToSet(instrs) : x.op = "Phi" /\ x.dst = reg
         IN IF has_phi THEN phi_frontier(func, reg, df, k + 1, work_list)
            ELSE phi_frontier(
                   [func EXCEPT !.blocks[frontier_block + 1].instructions =
                                     <<Phi(reg, "I32")>> \o instrs],
                   reg, df, k + 1,
                   IF frontier_block \in SeqToSet(work_list) THEN work_list
                   ELSE Append(work_list, frontier_block))

\* the while loop over the work list of one register
RECURSIVE phi_worklist(_, _, _, _)
phi_worklist(func, reg, work_list, visited) ==
    IF work_list = <<>> THEN func
    ELSE LET block_id == Last(work_list)
             rest == SubSeq(work_list, 1, Len(work_list) - 1)
         IN IF block_id \in visited THEN phi_worklist(func, reg, rest, visited)
            ELSE LET r == phi_frontier(func, reg, func.blocks[block_id + 1].dom_frontier,
                                       1, rest)
                 IN phi_worklist(r.func, reg, r.work_list, visited \cup {block_id})

new_name(old_reg, counter) == old_reg * 1000 + counter

\* rename_block: the names it draws for the Phi nodes of the block are
\* pushed on the stacks and popped again; no instruction is written
rename_block(func, block_id) ==
    LET phis == SelectSeq(func.blocks[block_id + 1].instructions, LAMBDA x : x.op = "Phi")
        phi_defs == [k \in 1..Len(phis) |->
                        <<phis[k].dst,
                          new_name(phis[k].dst,
                                   Cardinality({j \in 1..(k - 1) : phis[j].dst = phis[k].dst}))>>]
    IN [func |-> func, phi_defs |-> phi_defs]

rename_variables(func) == rename_block(func, 0).func

(***************************************************************************)
(* The functions SSA construction is run on: the control-flow shapes the   *)
(* builder emits for straight code, if, if/else and while, and a function  *)
(* with an unreachable loop; register 1 is defined by a Move in any set of *)
(* blocks, register 2 in at most one block; build_cfg has filled the edges *)
(* The last shape is the while loop with its pre-header numbered 3, after  *)
(* the loop's header 1 and body 2.                                         *)
(***************************************************************************)
SsaShapes ==
    { <<Branch(1), Return(<<Reg(1)>>)>>,
      <<CondBranch(Argument(0), 1, 2), Branch(2), Return(<<Reg(1)>>)>>,
      <<CondBranch(Argument(0), 1, 2), Branch(3), Branch(3), Return(<<Reg(1)>>)>>,
      <<Branch(1), CondBranch(Reg(2), 2, 3), Branch(1), Return(<<Reg(1)>>)>>,
      <<Branch(1), Return(<<Reg(1)>>), Branch(3), CondBranch(Argument(0), 2, 1)>>,
      <<Branch(3), CondBranch(Argument(0), 2, 4), Branch(1), Branch(1), Return(<<Reg(1)>>)>> }

SsaFunction(shape, defs1, defs2) ==
    build_cfg([blocks |-> [i \in 1..Len(shape) |->
        [IRBasicBlock(i - 1) EXCEPT !.instructions =
            (IF i - 1 \in defs1 THEN <<Move(1, I32(i))>> ELSE <<>>)
            \o (IF i - 1 \in defs2 THEN <<Move(2, I32(0))>> ELSE <<>>)
            \o <<shape[i]>>]]])

InitSSA ==
    /\ \E shape \in SsaShapes :
        \E defs1 \in SUBSET (0..(Len(shape) - 1)), d2 \in 0..Len(shape) :
            LET f == SsaFunction(shape, defs1, {d2} \cap (0..(Len(shape) - 1)))
            IN ssa = [orig |-> f, func |-> f, pc |-> "dominance", defs |-> {}]
    /\ dce = Idle /\ cf = Idle /\ ph = Idle /\ ra = Idle /\ bld = Idle /\ vm = Idle
    /\ optz = Idle /\ cfa = Idle /\ inl = Idle /\ repl = Idle /\ strs = Idle /\ eng = Idle

\* transform_to_ssa, its four steps in order
ComputeDominance ==
    /\ ssa.pc = "dominance"
    /\ ssa' = [ssa EXCEPT !.func = compute_dominance(ssa.func), !.pc = "frontiers"]
    /\ UNCHANGED <<dce, cf, ph, ra, bld, vm, optz, cfa, inl, repl, strs, eng>>

ComputeDominanceFrontiers ==
    /\ ssa.pc = "frontiers"
    /\ LET r == compute_dominance_frontiers(ssa.func)
       IN ssa' = [ssa EXCEPT !.func = r.func,
                             !.pc = IF r.hangs THEN "hangs" ELSE "phi",
                             !.defs = IF r.hangs THEN {} ELSE def_registers(r.func)]
    /\ UNCHANGED <<dce, cf, ph, ra, bld, vm, optz, cfa, inl, repl, strs, eng>>

\* insert_phi_nodes: the registers of the defs map are taken in the map's
\* iteration order, which is any order
InsertPhiNodes ==
    /\ ssa.pc = "phi" /\ ssa.defs # {}
    /\ \E reg \in ssa.defs :
        ssa' = [ssa EXCEPT !.func = phi_worklist(ssa.func, reg, def_blocks(ssa.orig, reg), {}),
                           !.defs = @ \ {reg}]
    /\ UNCHANGED <<dce, cf, ph, ra, bld, vm, optz, cfa, inl, repl, strs, eng>>

RenameVariables ==
    /\ ssa.pc = "phi" /\ ssa.defs = {}
    /\ ssa' = [ssa EXCEPT !.func = rename_variables(ssa.func), !.pc = "done"]
    /\ UNCHANGED <<dce, cf, ph, ra, bld, vm, optz, cfa, inl, repl, strs, eng>>

NextSSA == ComputeDominance \/ ComputeDominanceFrontiers \/ InsertPhiNodes \/ RenameVariables

SpecSSA == InitSSA /\ [][NextSSA]_vars

\* the number of instructions of the function that define reg
DefCount(func, reg) == Len(def_blocks(func, reg))

\* C5: after SSA construction has run on a function whose CFG edges are
\* populated, every virtual register has at most one defining instruction
\* in the function, an inserted Phi counting as a definition.
C5_SingleDefinitionAfterSSA ==
    ssa.pc = "done" => \A reg \in def_registers(ssa.func) : DefCount(ssa.func, reg) <= 1

\* the blocks d such that b dominates a predecessor of d and does not
\* strictly dominate d, by the dominator sets compute_dominance has left
DominanceFrontier(func, b) ==
    {d \in 0..(Len(func.blocks) - 1) :
        /\ \E p \in SeqToSet(func.blocks[d + 1].predecessors) :
               b \in SeqToSet(func.blocks[p + 1].dominators)
        /\ ~strictly_dominates(func, b, d)}

\* C29: for a function with populated CFG edges, the dominance frontier SSA
\* construction computes for each block b is exactly the set of blocks d such
\* that b dominates a predecessor of d and does not strictly dominate d,
\* whatever the numbering of the blocks and with unreachable blocks too
C29_FrontierIsTheDominanceFrontier ==
    ssa.pc \in {"phi", "done", "hangs"} =>
        /\ ssa.pc # "hangs"
        /\ \A b \in 0..(Len(ssa.func.blocks) - 1) :
               SeqToSet(ssa.func.blocks[b + 1].dom_frontier) = DominanceFrontier(ssa.func, b)

(***************************************************************************)
(* control_flow.rs: live ranges.  A position is <<block, instruction>>,    *)
(* both counted from 0, ordered as Rust orders tuples                      *)
(***************************************************************************)
PosLess(p, q) == p[1] < q[1] \/ (p[1] = q[1] /\ p[2] < q[2])

PosMin(S) == CHOOSE p \in S : \A q \in S : ~PosLess(q, p)

PosMax(S) == CHOOSE p \in S : \A q \in S : ~PosLess(p, q)

get_defined_reg(instr) ==
    IF instr.op \in {"Add", "Sub", "Mul", "Load", "Move"} THEN instr.dst ELSE None

get_used_registers(instr) ==
    IF instr.op \in {"Add", "Sub", "Mul", "Move"}
    THEN [k \in 1..Len(SelectSeq(instr.args, IsReg)) |-> SelectSeq(instr.args, IsReg)[k].v]
    ELSE <<>>

\* the positions at which the instructions of the function satisfy hit(instr),
\* once per element of the sequence hits(instr), in program order
PositionsOf(func, hits(_)) ==
    FlattenSeq([b \in 1..Len(func.blocks) |->
        FlattenSeq([i \in 1..Len(func.blocks[b].instructions) |->
            [k \in 1..Len(hits(func.blocks[b].instructions[i])) |-> <<b - 1, i - 1>>]])])

\* LiveRange after every add_use and add_def of compute_live_ranges: start is
\* the least position added, end the greatest of (0, 0) and the positions
\* added, uses the positions of the uses with repetitions
LiveRangeOf(uses, defs) ==
    [start |-> PosMin(SeqToSet(uses) \cup SeqToSet(defs)),
     end |-> PosMax(SeqToSet(uses) \cup SeqToSet(defs) \cup {<<0, 0>>}),
     uses |-> uses]

compute_live_ranges(func) ==
    LET usesOf(r) == PositionsOf(func, LAMBDA x : SelectSeq(get_used_registers(x), LAMBDA u : u = r))
        defsOf(r) == PositionsOf(func, LAMBDA x : IF get_defined_reg(x) = r THEN <<r>> ELSE <<>>)
        regs == UNION {SeqToSet(get_used_registers(x)) \cup ({get_defined_reg(x)} \ {None}) :
                          x \in SeqToSet(AllInstrs(func))}
    IN [r \in regs |-> LiveRangeOf(usesOf(r), defsOf(r))]

overlaps(self, other) == ~(PosLess(self.end, other.start) \/ PosLess(other.end, self.start))

(***************************************************************************)
(* register_allocator.rs                                                   *)
(***************************************************************************)
\* the physical registers of assign_registers, by colour
phys_regs ==
    <<"RAX", "RBX", "RCX", "RDX", "RSI", "RDI", "R8", "R9", "R10", "R11", "R12", "R13",
      "R14", "R15">>

\* PhysicalRegister::Spilled(slot)
Physical(reg) == <<"Physical", reg>>

Spilled(slot) == <<"Spilled", slot>>

\* the graph has a key for a register only when some other range overlaps its
build_interference_graph(live_ranges) ==
    LET nbrs(r) == {q \in DOMAIN live_ranges \ {r} : overlaps(live_ranges[r], live_ranges[q])}
    IN [r \in {x \in DOMAIN live_ranges : nbrs(x) # {}} |-> nbrs(r)]

Degree(interference, remaining, node) == Cardinality(interference[node] \cap remaining)

\* min_by_key over the hash set: any node of least degree
MinDegreeNodes(interference, remaining) ==
    {n \in remaining : \A q \in remaining :
        Degree(interference, remaining, n) <= Degree(interference, remaining, q)}

\* choose_spill_candidate, max_by_key over the hash set: any candidate with
\* the most recorded uses
choose_spill_candidate(candidates, live_ranges) ==
    {c \in candidates : \A q \in candidates :
        Len(live_ranges[q].uses) <= Len(live_ranges[c].uses)}

\* the lowest colour no coloured neighbour has
LowestFreeColor(used_colors) == SetMin({c \in 0..Cardinality(used_colors) : c \notin used_colors})

get_used_virtual_regs(instr) == get_used_registers(instr)

get_defined_virtual_reg(instr) ==
    IF instr.op \in {"Add", "Sub", "Mul", "Move"} THEN instr.dst ELSE None

\* insert_spill_code for the instructions of one block from index i on;
\* count is func.register_count
RECURSIVE spill_block(_, _, _, _, _)
spill_block(instructions, i, count, spilled, allocation) ==
    IF i > Len(instructions) THEN [instructions |-> <<>>, count |-> count]
    ELSE LET instr == instructions[i]
             uses == SelectSeq(get_used_virtual_regs(instr), LAMBDA r : r \in spilled)
             loads == [k \in 1..Len(uses) |->
                          Load(count + k - 1, Local(allocation[uses[k]][2]), "I64")]
             def_reg == get_defined_virtual_reg(instr)
             stores == IF def_reg # None /\ def_reg \in spilled
                       THEN <<Store(Local(allocation[def_reg][2]), Reg(def_reg), "I64")>>
                       ELSE <<>>
             rest == spill_block(instructions, i + 1, count + Len(uses), spilled, allocation)
         IN [instructions |-> loads \o <<instr>> \o stores \o rest.instructions,
             count |-> rest.count]

RECURSIVE insert_spill_code(_, _, _, _)
insert_spill_code(func, b, spilled, allocation) ==
    IF b > Len(func.blocks) THEN func
    ELSE LET r == spill_block(func.blocks[b].instructions, 1, func.register_count,
                              spilled, allocation)
         IN insert_spill_code([func EXCEPT !.blocks[b].instructions = r.instructions,
                                           !.register_count = r.count],
                              b + 1, spilled, allocation)

(***************************************************************************)
(* The functions the allocator is run on: one block of up to MaxDefs       *)
(* instructions, the i-th defining register i from a local, a constant or  *)
(* earlier registers, then Return of a register; the allocator is built    *)
(* with 0 registers (the non-x86 targets of codegen.rs), 2, or the 14 of   *)
(* x86-64.  register_count is the number of registers the builder drew:    *)
(* those of the body and, for a function dead code has been removed from,  *)
(* DeadRegisters more.  The emitter then draws its own map of the function *)
(* the allocator has left.                                                 *)
(***************************************************************************)
MaxDefs == 4

DeadRegisters == 12

\* codegen.rs, simple_register_map
simple_register_map(func) ==
    [vreg \in 0..(func.register_count - 1) |->
        IF vreg < Len(phys_regs) THEN Physical(phys_regs[vreg + 1])
        ELSE Spilled(vreg - Len(phys_regs))]

\* format_operand_x86_64: the offset below rbp of a spilled register's slot
\* and of IRValue::Local(idx)
frame_offset(slot) == (slot + 1) * 8

RaChoices(i) ==
    {Load(i, Local(0), "I32"), Move(i, I32(1))}
    \cup (IF i = 0 THEN {}
          ELSE {Move(i, Reg(i - 1)), Div(i, Reg(i - 1), Reg(0), "I32")}
               \cup {Add(i, Reg(j), Reg(i - 1), "I32") : j \in 0..(i - 1)})

RECURSIVE RaBodies(_)
RaBodies(n) ==
    IF n = 0 THEN {<<>>}
    ELSE {Append(body, instr) : body \in RaBodies(n - 1), instr \in RaChoices(n - 1)}

RegisterCounts == {0, 2, Len(phys_regs)}

InitRA ==
    /\ \E n \in 1..MaxDefs :
        \E body \in RaBodies(n),
           r \in 0..(n - 1), num_registers \in RegisterCounts, dead \in {0, DeadRegisters} :
            LET f == [blocks |-> <<[IRBasicBlock(0) EXCEPT
                                       !.instructions = body \o <<Return(<<Reg(r)>>)>>]>>,
                      register_count |-> n + dead]
            IN ra = [orig |-> f, func |-> f, available_registers |-> num_registers,
                     pc |-> "allocate", live_ranges |-> <<>>, interference |-> <<>>,
                     remaining |-> {}, stack |-> <<>>, coloring |-> <<>>,
                     spilled |-> {}, allocation |-> <<>>, emitter_map |-> <<>>]
    /\ dce = Idle /\ cf = Idle /\ ph = Idle /\ ssa = Idle /\ bld = Idle /\ vm = Idle
    /\ optz = Idle /\ cfa = Idle /\ inl = Idle /\ repl = Idle /\ strs = Idle /\ eng = Idle

\* allocate: compute_live_ranges, build_interference_graph, and the start of
\* graph_coloring
ComputeInterference ==
    /\ ra.pc = "allocate"
    /\ LET live_ranges == compute_live_ranges(ra.func)
           interference == build_interference_graph(live_ranges)
       IN ra' = [ra EXCEPT !.live_ranges = live_ranges, !.interference = interference,
                           !.remaining = DOMAIN interference, !.pc = "coloring"]
    /\ UNCHANGED <<dce, cf, ph, ssa, bld, vm, optz, cfa, inl, repl, strs, eng>>

\* graph_coloring, one round of the simplification loop
Simplify ==
    /\ ra.pc = "coloring" /\ ra.remaining # {}
    /\ \E node \in MinDegreeNodes(ra.interference, ra.remaining) :
        IF Degree(ra.interference, ra.remaining, node) < ra.available_registers
        THEN ra' = [ra EXCEPT !.stack = Append(@, node), !.remaining = @ \ {node}]
        ELSE \E spill_node \in choose_spill_candidate(ra.remaining, ra.live_ranges) :
                ra' = [ra EXCEPT !.spilled = @ \cup {spill_node},
                                 !.stack = Append(@, spill_node),
                                 !.remaining = @ \ {spill_node}]
    /\ UNCHANGED <<dce, cf, ph, ssa, bld, vm, optz, cfa, inl, repl, strs, eng>>

\* graph_coloring, one round of the selection loop
Select ==
    /\ ra.pc = "coloring" /\ ra.remaining = {} /\ ra.stack # <<>>
    /\ LET node == Last(ra.stack)
           used_colors == {ra.coloring[n] : n \in ra.interference[node] \cap DOMAIN ra.coloring}
           color == LowestFreeColor(used_colors)
           popped == [ra EXCEPT !.stack = SubSeq(@, 1, Len(@) - 1)]
       IN ra' = IF node \in ra.spilled THEN popped
                ELSE IF color >= ra.available_registers
                THEN [popped EXCEPT !.spilled = @ \cup {node}]
                ELSE [popped EXCEPT !.coloring =
                        [n \in DOMAIN ra.coloring \cup {node} |->
                            IF n = node THEN color ELSE ra.coloring[n]]]
    /\ UNCHANGED <<dce, cf, ph, ssa, bld, vm, optz, cfa, inl, repl, strs, eng>>

\* assign_registers, the spilled set enumerated in any order, then
\* insert_spill_code when a register was spilled, and allocate returns Ok
AssignRegisters ==
    /\ ra.pc = "coloring" /\ ra.remaining = {} /\ ra.stack = <<>>
    /\ \E slots \in [ra.spilled -> 0..(Cardinality(ra.spilled) - 1)] :
        /\ \A a \in ra.spilled, b \in ra.spilled : a # b => slots[a] # slots[b]
        /\ LET colored == {n \in DOMAIN ra.coloring : ra.coloring[n] < Len(phys_regs)}
               allocation == [n \in colored \cup ra.spilled |->
                                 IF n \in ra.spilled THEN Spilled(slots[n])
                                 ELSE Physical(phys_regs[ra.coloring[n] + 1])]
           IN ra' = [ra EXCEPT !.allocation = allocation, !.pc = "done",
                               !.func = IF ra.spilled = {} THEN @
                                        ELSE insert_spill_code(@, 1, ra.spilled, allocation)]
    /\ UNCHANGED <<dce, cf, ph, ssa, bld, vm, optz, cfa, inl, repl, strs, eng>>

\* generate_function_x86_64: let allocation = self.simple_register_map(func)
SimpleRegisterMap ==
    /\ ra.pc = "done"
    /\ ra' = [ra EXCEPT !.emitter_map = simple_register_map(ra.func), !.pc = "emitted"]
    /\ UNCHANGED <<dce, cf, ph, ssa, bld, vm, optz, cfa, inl, repl, strs, eng>>

NextRA == ComputeInterference \/ Simplify \/ Select \/ AssignRegisters \/ SimpleRegisterMap

SpecRA == InitRA /\ [][NextRA]_vars

\* the span of a register from its first definition to its last read, every
\* instruction that writes it a definition and every instruction that reads it
\* a use
SpanOf(func, r) ==
    LET at(hit(_)) == {<<b - 1, i - 1>> : b \in 1..Len(func.blocks), i \in 1..MaxDefs + 1} \cap
                      {p \in (0..Len(func.blocks)) \X (0..MaxDefs) :
                          /\ p[1] + 1 <= Len(func.blocks)
                          /\ p[2] + 1 <= Len(func.blocks[p[1] + 1].instructions)
                          /\ hit(func.blocks[p[1] + 1].instructions[p[2] + 1])}
        defs == at(LAMBDA x : x.dst = r)
        reads == at(LAMBDA x : r \in ReadRegs(x))
    IN [start |-> PosMin(defs), end |-> PosMax(defs \cup reads)]

\* C6: once allocate has returned Ok, no two distinct virtual registers whose
\* live ranges (first definition to last use, every reading instruction a
\* use) overlap are assigned the same physical register
C6_OverlappingRangesGetDistinctRegisters ==
    ra.pc \in {"done", "emitted"} =>
        \A a \in DOMAIN ra.allocation, b \in DOMAIN ra.allocation :
            (/\ a # b
             /\ ra.allocation[a][1] = "Physical"
             /\ overlaps(SpanOf(ra.orig, a), SpanOf(ra.orig, b)))
            => ra.allocation[a] # ra.allocation[b]

\* C7: once allocate has returned Ok, every virtual register that has a live
\* range is mapped to a physical register or a stack slot, a register whose
\* range overlaps no other range included
C7_EveryLiveRegisterIsAllocated ==
    ra.pc \in {"done", "emitted"} => \A r \in DOMAIN ra.live_ranges : r \in DOMAIN ra.allocation

\* the frame offsets of the user's locals: the IRValue::Local operands of
\* the function as it was built
UserLocalOffsets(func) ==
    {frame_offset(val.v) :
        val \in {x \in UNION {SeqToSet(instr.args) : instr \in SeqToSet(AllInstrs(func))} :
                    x.k = "local"}}

\* the frame offsets a register map gives to spilled registers
SpillOffsets(allocation) ==
    [r \in {x \in DOMAIN allocation : allocation[x][1] = "Spilled"} |->
        frame_offset(allocation[r][2])]

NoSlotShared(allocation, func) ==
    LET offsets == SpillOffsets(allocation)
    IN /\ \A r \in DOMAIN offsets : offsets[r] \notin UserLocalOffsets(func)
       /\ \A r \in DOMAIN offsets, q \in DOMAIN offsets : r # q => offsets[r] # offsets[q]

\* C28: within one function the stack location of a spilled virtual register
\* is never that of a user local's slot nor that of another spilled register,
\* in the allocator's spill code and in the emitter's fallback register map
C28_SpillSlotsAreNotShared ==
    /\ ra.pc \in {"done", "emitted"} => NoSlotShared(ra.allocation, ra.orig)
    /\ ra.pc = "emitted" => NoSlotShared(ra.emitter_map, ra.orig)

(***************************************************************************)
(* ir_builder.rs: the builder's state while one function is built is       *)
(* [blocks, current_block, block_counter, register_counter, local_counter, *)
(*  loop_stack, err], next to the function's body and the statements of it *)
(* still to build (rest); err is the Err a `?` propagates.  A statement is *)
(* [s, body, else_body, arms, opt]: opt holds which optional parts of an   *)
(* If ("else") or a For ("init", "cond", "inc") are present.               *)
(***************************************************************************)
Stmt(kind, body, else_body, arms, opt) ==
    [s |-> kind, body |-> body, else_body |-> else_body, arms |-> arms, opt |-> opt]

VarDecl == Stmt("VarDecl", <<>>, <<>>, <<>>, {})

ReturnStmt == Stmt("Return", <<>>, <<>>, <<>>, {})

Break == Stmt("Break", <<>>, <<>>, <<>>, {})

Continue == Stmt("Continue", <<>>, <<>>, <<>>, {})

MatchArm(pattern, body) == [pattern |-> pattern, body |-> body]

create_block_id(st) == [st EXCEPT !.block_counter = @ + 1]

RECURSIVE switch_to_block(_, _)
switch_to_block(st, block_id) ==
    IF Len(st.blocks) <= block_id
    THEN switch_to_block([st EXCEPT !.blocks = Append(@, IRBasicBlock(Len(@)))], block_id)
    ELSE [st EXCEPT !.current_block = block_id]

emit_instruction(st, instr) ==
    LET pushed == IF st.current_block >= Len(st.blocks)
                  THEN Append(st.blocks, IRBasicBlock(st.current_block))
                  ELSE st.blocks
    IN IF st.current_block + 1 > Len(pushed)
       THEN [st EXCEPT !.err = TRUE]
       ELSE [st EXCEPT !.blocks = [pushed EXCEPT ![st.current_block + 1].instructions =
                                                     Append(@, instr)]]

has_terminator(st) ==
    /\ st.current_block < Len(st.blocks)
    /\ st.blocks[st.current_block + 1].instructions # <<>>
    /\ Last(st.blocks[st.current_block + 1].instructions).op \in Terminators

next_register(st) == [st EXCEPT !.register_counter = @ + 1]

RECURSIVE build_statement(_, _)
RECURSIVE build_body(_, _)
RECURSIVE build_arms(_, _, _, _, _)
\* for stmt in body { build_statement(stmt)?; if has_terminator { break } }
build_body(st, body) ==
    IF body = <<>> \/ st.err THEN st
    ELSE LET built == build_statement(st, Head(body))
         IN IF built.err \/ has_terminator(built) THEN built
            ELSE build_body(built, Tail(body))

\* a body, then the Branch to the target when the block is left open
build_branch(st, body, target) ==
    LET built == build_body(st, body)
    IN IF built.err \/ has_terminator(built) THEN built
       ELSE emit_instruction(built, Branch(target))

build_if_statement(st, then_body, else_body) ==
    LET then_block == st.block_counter
        else_block == st.block_counter + 1
        merge_block == st.block_counter + 2
        ids == create_block_id(create_block_id(create_block_id(st)))
        cond == emit_instruction(ids, CondBranch(Const("Bool", 1), then_block, else_block))
        then_built == build_branch(switch_to_block(cond, then_block), then_body, merge_block)
        else_built == IF then_built.err THEN then_built
                      ELSE build_branch(switch_to_block(then_built, else_block),
                                        else_body, merge_block)
    IN IF else_built.err THEN else_built ELSE switch_to_block(else_built, merge_block)

build_while_loop(st, body) ==
    LET header_block == st.block_counter
        body_block == st.block_counter + 1
        exit_block == st.block_counter + 2
        ids == create_block_id(create_block_id(create_block_id(st)))
        entered == emit_instruction(ids, Branch(header_block))
        header == emit_instruction(switch_to_block(entered, header_block),
                                   CondBranch(Const("Bool", 1), body_block, exit_block))
        pushed == [switch_to_block(header, body_block) EXCEPT !.loop_stack =
                      Append(@, [continue_block |-> header_block, break_block |-> exit_block])]
        built == build_branch(pushed, body, header_block)
    IN IF built.err THEN built
       ELSE switch_to_block([built EXCEPT !.loop_stack = SubSeq(@, 1, Len(@) - 1)],
                            exit_block)

build_for_loop(st, opt, body) ==
    LET init == IF "init" \in opt THEN build_statement(st, VarDecl) ELSE st
        header_block == init.block_counter
        body_block == init.block_counter + 1
        inc_block == init.block_counter + 2
        exit_block == init.block_counter + 3
        ids == create_block_id(create_block_id(create_block_id(create_block_id(init))))
        entered == switch_to_block(emit_instruction(ids, Branch(header_block)), header_block)
        header == IF "cond" \in opt
                  THEN emit_instruction(entered,
                                        CondBranch(Const("Bool", 1), body_block, exit_block))
                  ELSE emit_instruction(entered, Branch(body_block))
        pushed == [switch_to_block(header, body_block) EXCEPT !.loop_stack =
                      Append(@, [continue_block |-> inc_block, break_block |-> exit_block])]
        built == build_branch(pushed, body, inc_block)
        popped == switch_to_block([built EXCEPT !.loop_stack = SubSeq(@, 1, Len(@) - 1)],
                                  inc_block)
        inc == IF "inc" \in opt THEN build_statement(popped, VarDecl) ELSE popped
    IN IF built.err THEN built
       ELSE switch_to_block(emit_instruction(inc, Branch(header_block)), exit_block)

\* the arms of build_match_statement from arm i (0-based) on
build_arms(st, arms, i, merge_block, next_check_block) ==
    IF i >= Len(arms) \/ st.err THEN st
    ELSE LET arm == arms[i + 1]
             check == switch_to_block(st, next_check_block)
         IN IF arm.pattern = "Literal"
            THEN LET cmp_reg == check.register_counter
                     cmp == emit_instruction(next_register(check),
                                             Cmp(cmp_reg, Argument(0), I32(i), "I32"))
                     body_block == cmp.block_counter
                     ids == IF i < Len(arms) - 1
                            THEN create_block_id(create_block_id(cmp))
                            ELSE create_block_id(cmp)
                     next_block == IF i < Len(arms) - 1 THEN cmp.block_counter + 1
                                   ELSE merge_block
                     branched == emit_instruction(ids,
                                    CondBranch(Reg(cmp_reg), body_block, next_block))
                     built == build_branch(switch_to_block(branched, body_block),
                                           arm.body, merge_block)
                 IN build_arms(built, arms, i + 1, merge_block, next_block)
            ELSE IF arm.pattern = "Wildcard"
            THEN build_branch(check, arm.body, merge_block)
            ELSE [check EXCEPT !.err = TRUE]

build_match_statement(st, arms) ==
    LET merge_block == st.block_counter
        next_check_block == st.block_counter + 1
        built == build_arms(create_block_id(create_block_id(st)), arms, 0,
                            merge_block, next_check_block)
    IN IF built.err THEN built ELSE switch_to_block(built, merge_block)

build_statement(st, stmt) ==
    CASE stmt.s = "VarDecl" ->
            [emit_instruction(st, Store(Local(st.local_counter), I32(1), "I32"))
                EXCEPT !.local_counter = @ + 1]
      [] stmt.s = "Return" -> emit_instruction(st, Return(<<I32(1)>>))
      [] stmt.s = "If" -> build_if_statement(st, stmt.body, stmt.else_body)
      [] stmt.s = "While" -> build_while_loop(st, stmt.body)
      [] stmt.s = "For" -> build_for_loop(st, stmt.opt, stmt.body)
      [] stmt.s = "Break" ->
            IF st.loop_stack # <<>>
            THEN emit_instruction(st, Branch(Last(st.loop_stack).break_block))
            ELSE [st EXCEPT !.err = TRUE]
      [] stmt.s = "Continue" ->
            IF st.loop_stack # <<>>
            THEN emit_instruction(st, Branch(Last(st.loop_stack).continue_block))
            ELSE [st EXCEPT !.err = TRUE]
      [] stmt.s = "Match" -> build_match_statement(st, stmt.arms)
      [] OTHER -> st

(***************************************************************************)
(* The functions built: a body of up to MaxStmts statements, each a simple *)
(* statement or an If, While, For or Match whose bodies hold up to         *)
(* MaxNested simple statements and whose arms number up to MaxArms;        *)
(* the return type is Void or I32                                          *)
(***************************************************************************)
MaxStmts == 2

MaxNested == 1

MaxArms == 2

SeqsUpTo(S, n) == UNION {[1..k -> S] : k \in 0..n}

SimpleStmts == {VarDecl, ReturnStmt, Break, Continue}

NestedBodies == SeqsUpTo(SimpleStmts, MaxNested)

Stmts ==
    SimpleStmts
    \cup {Stmt("If", b, e, <<>>, {}) : b \in NestedBodies, e \in NestedBodies}
    \cup {Stmt("While", b, <<>>, <<>>, {}) : b \in NestedBodies}
    \cup {Stmt("For", b, <<>>, <<>>, o) : b \in NestedBodies, o \in SUBSET {"init", "cond", "inc"}}
    \cup {Stmt("Match", <<>>, <<>>, a, {}) :
            a \in SeqsUpTo({MatchArm(p, b) : p \in {"Literal", "Wildcard"}, b \in NestedBodies},
                           MaxArms)}

InitBuilder ==
    /\ \E body \in SeqsUpTo(Stmts, MaxStmts), return_type \in {"Void", "I32"} :
        bld = [body |-> body, rest |-> body, return_type |-> return_type, pc |-> "body",
               blocks |-> <<IRBasicBlock(0)>>, current_block |-> 0, block_counter |-> 1,
               register_counter |-> 0, local_counter |-> 0, loop_stack |-> <<>>,
               err |-> FALSE]
    /\ dce = Idle /\ cf = Idle /\ ph = Idle /\ ssa = Idle /\ ra = Idle /\ vm = Idle
    /\ optz = Idle /\ cfa = Idle /\ inl = Idle /\ repl = Idle /\ strs = Idle /\ eng = Idle

\* build_function, one round of `for stmt in func.body`
BuildStatement ==
    /\ bld.pc = "body" /\ bld.rest # <<>>
    /\ LET built == build_statement(bld, Head(bld.rest))
       IN bld' = [built EXCEPT !.rest = Tail(@),
                               !.pc = IF built.err THEN "err"
                                      ELSE IF has_terminator(built) THEN "return"
                                      ELSE "body"]
    /\ UNCHANGED <<dce, cf, ph, ssa, ra, vm, optz, cfa, inl, repl, strs, eng>>

\* build_function, after the loop: the default return when the current block
\* is open, and the function is inserted into the program
AddDefaultReturn ==
    /\ bld.pc = "return" \/ (bld.pc = "body" /\ bld.rest = <<>>)
    /\ bld' = [(IF has_terminator(bld) THEN bld
                ELSE IF bld.return_type = "Void" THEN emit_instruction(bld, Return(<<>>))
                ELSE emit_instruction(bld, Return(<<I32(0)>>)))
               EXCEPT !.pc = "done"]
    /\ UNCHANGED <<dce, cf, ph, ssa, ra, vm, optz, cfa, inl, repl, strs, eng>>

NextBuilder == BuildStatement \/ AddDefaultReturn

SpecBuilder == InitBuilder /\ [][NextBuilder]_vars

ExactlyOneTerminator(block) ==
    /\ block.instructions # <<>>
    /\ \A i \in 1..Len(block.instructions) :
        block.instructions[i].op \in Terminators <=> i = Len(block.instructions)

\* C2: every basic block of a function the builder produces ends with exactly
\* one terminator: its last instruction is a Branch, CondBranch or Return and
\* no other instruction of the block is one, functions with match statements
\* included
C2_EveryBlockEndsWithOneTerminator ==
    bld.pc = "done" => \A b \in 1..Len(bld.blocks) : ExactlyOneTerminator(bld.blocks[b])

\* A body none of whose statements, nested ones included, is a return
RECURSIVE ContainsReturn(_)
ContainsReturn(body) ==
    \E i \in 1..Len(body) :
        \/ body[i].s = "Return"
        \/ ContainsReturn(body[i].body)
        \/ ContainsReturn(body[i].else_body)
        \/ \E a \in 1..Len(body[i].arms) : ContainsReturn(body[i].arms[a].body)

\* C18: building a non-void function whose body can reach its end without
\* executing a return statement fails with a BuildError instead of producing
\* IR for the function: build_function never completes for a non-void
\* function that has no return statement at all
C18_MissingReturnIsABuildError ==
    (bld.pc = "done" /\ bld.return_type # "Void") => ContainsReturn(bld.body)

(***************************************************************************)
(* bytecode.rs (MagpieRuntime): the bytecode compiler.  An Op is           *)
(* [op, a, b]: a is the operand of Const, Int, LoadLocal, StoreLocal,      *)
(* LoadGlobal, StoreGlobal, Jump, JumpIfFalse and the function index of    *)
(* Call, b is Call's argument count.  A Val is [t, v].  Offsets, slots and *)
(* indices are 0-based as in the code.  The integers of the programs run   *)
(* here stay far inside i64.                                               *)
(***************************************************************************)
Op(name, a, b) == [op |-> name, a |-> a, b |-> b]

\* v is the number of an Int or Bool; an Array is a shared reference
\* (Rc<RefCell<Vec<Val>>>): v is the place of its elements in the run's heap,
\* counted from 1; str is the text of a Str
Val(t, v) == [t |-> t, v |-> v, str |-> ""]

ArrayVal(ref) == [t |-> "Array", v |-> ref, str |-> ""]

StrVal(str) == [t |-> "Str", v |-> 0, str |-> str]

Null == Val("Null", 0)

\* Expr and Stmt of the AST, in one shape each
Expr(kind, n, name, args) == [e |-> kind, n |-> n, name |-> name, args |-> args]

IntLit(n) == Expr("Int", n, "", <<>>)

Var(name) == Expr("Var", 0, name, <<>>)

Binary(op, left, right) == Expr("Binary", 0, op, <<left, right>>)

Compare(op, left, right) == Expr("Compare", 0, op, <<left, right>>)

CallExpr(name, args) == Expr("Call", 0, name, args)

BoolLit(b) == Expr("Bool", IF b THEN 1 ELSE 0, "", <<>>)

ArrayLit(elems) == Expr("Array", 0, "", elems)

Index(array, index) == Expr("Index", 0, "", <<array, index>>)

Field(object, field) == Expr("Field", 0, field, <<object>>)

\* Stmt: value is <<expr>> or <<>> for an absent Option
SStmt(kind, name, value, body, else_body) ==
    [s |-> kind, name |-> name, value |-> value, body |-> body, else_body |-> else_body]

Let(name, value) == SStmt("Let", name, <<value>>, <<>>, <<>>)

Assign(name, value) == SStmt("Assign", name, <<value>>, <<>>, <<>>)

\* Stmt::Assign with a target that is no plain name
AssignTo(target, value) ==
    [s |-> "Assign", name |-> "", value |-> <<value>>, body |-> <<>>, else_body |-> <<>>,
     target |-> target]

ReturnOf(value) == SStmt("Return", "", value, <<>>, <<>>)

If(cond, then_body, else_body) == SStmt("If", "", <<cond>>, then_body, else_body)

While(cond, body) == SStmt("While", "", <<cond>>, body, <<>>)

ExprStmt(e) == SStmt("Expr", "", <<e>>, <<>>, <<>>)

ContinueStmt == SStmt("Continue", "", <<>>, <<>>, <<>>)

\* Stmt::For: init, cond and inc are <<x>> or <<>> for an absent Option
ForLoop(init, cond, inc, body) ==
    [s |-> "For", name |-> "", value |-> cond, body |-> body, else_body |-> <<>>,
     init |-> init, inc |-> inc]

\* TopLevel::Function(FnDef) and TopLevel::Const
FnDef(name, params, ret, body) ==
    [top |-> "Function", name |-> name, params |-> params, ret |-> ret, body |-> body,
     value |-> 0]

ConstDef(name, value) ==
    [top |-> "Const", name |-> name, params |-> <<>>, ret |-> "", body |-> <<>>,
     value |-> value]

\* Compiler::new
NewCompiler ==
    [code |-> <<>>, consts |-> <<>>, globals |-> <<>>, funcs |-> <<>>, func_map |-> <<>>,
     entry |-> 0, locals |-> <<<<>>>>, local_count |-> 0, global_map |-> <<>>,
     loop_breaks |-> <<>>, loop_continues |-> <<>>, err |-> FALSE]

\* a HashMap<String, _> with one more entry
Insert(map, key, value) == [k \in DOMAIN map \cup {key} |-> IF k = key THEN value ELSE map[k]]

emit(c, op) == [c EXCEPT !.code = Append(@, op)]

\* emit_jmp returns the position Len(c.code) of the op it pushes
emit_jmp(c, op) == emit(c, op)

patch(c, pos) == [c EXCEPT !.code[pos + 1].a = Len(c.code)]

\* add_const returns the index Len(c.consts)
add_const(c, v) == [c EXCEPT !.consts = Append(@, v)]

RECURSIVE find_in_scopes(_, _, _)
find_in_scopes(locals, name, i) ==
    IF i = 0 THEN None
    ELSE IF name \in DOMAIN locals[i] THEN locals[i][name]
    ELSE find_in_scopes(locals, name, i - 1)

find_local(c, name) == find_in_scopes(c.locals, name, Len(c.locals))

\* the index get_global returns
global_index(c, name) ==
    IF name \in DOMAIN c.global_map THEN c.global_map[name] ELSE Len(c.globals)

get_global(c, name) ==
    IF name \in DOMAIN c.global_map THEN c
    ELSE [c EXCEPT !.globals = Append(@, name),
                   !.global_map = Insert(@, name, Len(c.globals))]

BinaryOps ==
    [Add |-> "Add", Sub |-> "Sub", Mul |-> "Mul", Div |-> "Div", Mod |-> "Mod"]

ComparisonOps ==
    [Equal |-> "Eq", NotEqual |-> "NotEq", Less |-> "Lt", LessEqual |-> "LtEq",
     Greater |-> "Gt", GreaterEqual |-> "GtEq"]

\* the `?` of the compiler: the next step runs unless c is an Err
Then(c, next(_)) == IF c.err THEN c ELSE next(c)

\* a test that leaves out the least 16-bit value
fits_inline_symmetric(n) == n > -32768 /\ n <= 32767

\* the test of the Expr::Int arm of compile_expr
fits_inline(n) == n >= -32768 /\ n <= 32767

RECURSIVE compile_expr(_, _)
RECURSIVE compile_exprs(_, _)
compile_exprs(c, exprs) ==
    IF exprs = <<>> \/ c.err THEN c
    ELSE compile_exprs(compile_expr(c, Head(exprs)), Tail(exprs))

compile_expr(c, expr) ==
    CASE expr.e = "Int" ->
            IF fits_inline(expr.n) THEN emit(c, Op("Int", expr.n, 0))
            ELSE emit(add_const(c, Val("Int", expr.n)), Op("Const", Len(c.consts), 0))
      [] expr.e = "Bool" -> emit(c, Op(IF expr.n = 1 THEN "True" ELSE "False", 0, 0))
      [] expr.e = "Var" ->
            IF find_local(c, expr.name) # None
            THEN emit(c, Op("LoadLocal", find_local(c, expr.name), 0))
            ELSE emit(get_global(c, expr.name), Op("LoadGlobal", global_index(c, expr.name), 0))
      [] expr.e = "Array" ->
            Then(compile_exprs(c, expr.args),
                 LAMBDA elems : emit(elems, Op("NewArray", Len(expr.args), 0)))
      [] expr.e = "Index" ->
            Then(compile_exprs(c, expr.args),
                 LAMBDA operands : emit(operands, Op("ArrayGet", 0, 0)))
      [] expr.e = "Field" ->
            Then(compile_expr(c, expr.args[1]),
                 LAMBDA object :
                    emit(add_const(object, StrVal(expr.name)),
                         Op("GetField", Len(object.consts), 0)))
      [] expr.e \in {"Binary", "Compare"} ->
            Then(compile_exprs(c, expr.args),
                 LAMBDA operands :
                    emit(operands, Op(IF expr.e = "Binary" THEN BinaryOps[expr.name]
                                      ELSE ComparisonOps[expr.name], 0, 0)))
      [] expr.e = "Call" ->
            Then(compile_exprs(c, expr.args),
                 LAMBDA args :
                    IF expr.name = "print_int" THEN emit(args, Op("PrintInt", 0, 0))
                    ELSE IF expr.name \in DOMAIN args.func_map
                    THEN emit(args, Op("Call", args.func_map[expr.name], Len(expr.args)))
                    ELSE [args EXCEPT !.err = TRUE])
      [] OTHER -> c

\* the Expr::Field arm (a write through a scratch local) is left out: no
\* program here builds an object
compile_assign_target(c, target) ==
    CASE target.e = "Var" ->
            IF find_local(c, target.name) # None
            THEN emit(c, Op("StoreLocal", find_local(c, target.name), 0))
            ELSE emit(get_global(c, target.name),
                      Op("StoreGlobal", global_index(c, target.name), 0))
      [] target.e = "Index" ->
            Then(compile_exprs(c, target.args),
                 LAMBDA operands : emit(operands, Op("ArraySet", 0, 0)))
      [] OTHER -> [c EXCEPT !.err = TRUE]

RECURSIVE patch_all(_, _)
patch_all(c, positions) ==
    IF positions = <<>> THEN c ELSE patch_all(patch(c, Head(positions)), Tail(positions))

\* the end of a loop: the breaks are patched, the loop context is popped
close_loop(c) ==
    [patch_all(c, Last(c.loop_breaks)) EXCEPT !.loop_breaks = SubSeq(@, 1, Len(@) - 1),
                                               !.loop_continues = SubSeq(@, 1, Len(@) - 1)]

RECURSIVE compile_stmt(_, _)
RECURSIVE compile_stmts(_, _)
\* for s in body { compile_stmt(s)?; }
compile_stmts(c, body) ==
    IF body = <<>> \/ c.err THEN c
    ELSE compile_stmts(compile_stmt(c, Head(body)), Tail(body))

compile_stmt(c, stmt) ==
    CASE stmt.s = "Let" ->
            Then(IF stmt.value # <<>>
                 THEN compile_expr([c EXCEPT !.local_count = @ + 1,
                                             !.locals[Len(c.locals)] =
                                                 Insert(@, stmt.name, c.local_count)],
                                   stmt.value[1])
                 ELSE emit([c EXCEPT !.local_count = @ + 1,
                                     !.locals[Len(c.locals)] =
                                         Insert(@, stmt.name, c.local_count)],
                           Op("Null", 0, 0)),
                 LAMBDA value : emit(value, Op("StoreLocal", c.local_count, 0)))
      [] stmt.s = "Assign" ->
            Then(compile_expr(c, stmt.value[1]),
                 LAMBDA value :
                    compile_assign_target(value, IF "target" \in DOMAIN stmt
                                                 THEN stmt.target ELSE Var(stmt.name)))
      [] stmt.s = "Return" ->
            IF stmt.value # <<>>
            THEN Then(compile_expr(c, stmt.value[1]),
                      LAMBDA value : emit(value, Op("ReturnVal", 0, 0)))
            ELSE emit(emit(c, Op("Null", 0, 0)), Op("Return", 0, 0))
      [] stmt.s = "If" ->
            \* jmp_else is Len(cond.code), the end jump Len(then_body.code)
            Then(compile_expr(c, stmt.value[1]), LAMBDA cond :
            Then(compile_stmts(emit_jmp(cond, Op("JumpIfFalse", 0, 0)), stmt.body),
                 LAMBDA then_body :
            Then(compile_stmts(patch(emit_jmp(then_body, Op("Jump", 0, 0)), Len(cond.code)),
                               stmt.else_body),
                 LAMBDA else_body : patch(else_body, Len(then_body.code)))))
      [] stmt.s = "While" ->
            \* start is Len(c.code), jmp_end is Len(cond.code)
            Then(compile_expr([c EXCEPT !.loop_continues = Append(@, Len(c.code)),
                                        !.loop_breaks = Append(@, <<>>)],
                              stmt.value[1]),
                 LAMBDA cond :
            Then(compile_stmts(emit_jmp(cond, Op("JumpIfFalse", 0, 0)), stmt.body),
                 LAMBDA body :
                    close_loop(patch(emit(body, Op("Jump", Len(c.code), 0)), Len(cond.code)))))
      [] stmt.s = "For" ->
            \* start is Len(init.code), jmp_end is Len(cond.code)
            Then(IF stmt.init # <<>> THEN compile_stmt(c, stmt.init[1]) ELSE c,
                 LAMBDA init :
            Then(IF stmt.value # <<>>
                 THEN compile_expr([init EXCEPT !.loop_continues = Append(@, Len(init.code)),
                                                !.loop_breaks = Append(@, <<>>)],
                                   stmt.value[1])
                 ELSE [init EXCEPT !.loop_continues = Append(@, Len(init.code)),
                                   !.loop_breaks = Append(@, <<>>)],
                 LAMBDA cond :
            Then(compile_stmts(IF stmt.value # <<>>
                               THEN emit_jmp(cond, Op("JumpIfFalse", 0, 0)) ELSE cond,
                               stmt.body),
                 LAMBDA body :
            Then(IF stmt.inc # <<>> THEN compile_stmt(body, stmt.inc[1]) ELSE body,
                 LAMBDA inc :
                    close_loop(IF stmt.value # <<>>
                               THEN patch(emit(inc, Op("Jump", Len(init.code), 0)),
                                          Len(cond.code))
                               ELSE emit(inc, Op("Jump", Len(init.code), 0)))))))
      [] stmt.s = "Break" ->
            IF c.loop_breaks = <<>> THEN emit_jmp(c, Op("Jump", 0, 0))
            ELSE [emit_jmp(c, Op("Jump", 0, 0)) EXCEPT
                     !.loop_breaks[Len(c.loop_breaks)] = Append(@, Len(c.code))]
      [] stmt.s = "Continue" ->
            IF c.loop_continues = <<>> THEN c
            ELSE emit(c, Op("Jump", Last(c.loop_continues), 0))
      [] stmt.s = "Expr" ->
            Then(compile_expr(c, stmt.value[1]), LAMBDA value : emit(value, Op("Pop", 0, 0)))
      [] OTHER -> c

RECURSIVE bind_params(_, _, _)
bind_params(c, params, i) ==
    IF i >= Len(params) THEN c
    ELSE bind_params([c EXCEPT !.locals[1] = Insert(@, params[i + 1], i),
                               !.local_count = i + 1], params, i + 1)

\* funcs[idx].field = value when the function's name is in func_map
set_func(c, name, field, value) ==
    IF name \in DOMAIN c.func_map
    THEN [c EXCEPT !.funcs[c.func_map[name] + 1] = [@ EXCEPT ![field] = value]]
    ELSE c

compile_fn(c, f) ==
    Then(compile_stmts(bind_params([set_func(c, f.name, "entry", Len(c.code))
                                       EXCEPT !.locals = <<<<>>>>, !.local_count = 0],
                                   f.params, 0),
                       f.body),
         LAMBDA body :
            set_func(emit(IF f.ret = "Void" THEN emit(body, Op("Null", 0, 0)) ELSE body,
                          Op("Return", 0, 0)),
                     f.name, "locals", body.local_count))

compile_top(c, item) ==
    IF item.top = "Function" THEN compile_fn(c, item)
    ELSE IF item.top = "Const"
    THEN emit(emit(add_const(get_global(c, item.name), Val("Int", item.value)),
                   Op("Const", Len(c.consts), 0)),
              Op("StoreGlobal", global_index(c, item.name), 0))
    ELSE c

\* first pass of compile: every function gets an index
RECURSIVE register_functions(_, _)
register_functions(c, prog) ==
    IF prog = <<>> THEN c
    ELSE register_functions(
            IF Head(prog).top = "Function"
            THEN [c EXCEPT !.func_map = Insert(@, Head(prog).name, Len(c.funcs)),
                           !.funcs = Append(@, [entry |-> 0, params |-> Len(Head(prog).params),
                                                locals |-> 0, name |-> Head(prog).name,
                                                idx |-> Len(c.funcs)])]
            ELSE c,
            Tail(prog))

RECURSIVE compile_tops(_, _)
compile_tops(c, prog) ==
    IF prog = <<>> \/ c.err THEN c ELSE compile_tops(compile_top(c, Head(prog)), Tail(prog))

has_main(prog) == \E i \in 1..Len(prog) : prog[i].top = "Function" /\ prog[i].name = "main"

\* Compiler::compile: the Module, or err
compile(prog) ==
    Then(compile_tops(register_functions(IF has_main(prog)
                                         THEN emit(emit(NewCompiler, Op("Call", 0, 0)),
                                                   Op("Halt", 0, 0))
                                         ELSE NewCompiler,
                                         prog),
                      prog),
         LAMBDA compiled :
            emit(IF has_main(prog) /\ "main" \in DOMAIN compiled.func_map
                 THEN [compiled EXCEPT !.code[1] = Op("Call", compiled.func_map["main"], 0)]
                 ELSE compiled,
                 Op("Halt", 0, 0)))

(***************************************************************************)
(* bytecode.rs (MagpieRuntime): the VM.  The state of a run is [ip, stack, *)
(* frames, globals, out] over the compiled module; out is what the print   *)
(* ops wrote.  status is "source" before compilation, "compiled", then     *)
(* "running" until run returns Ok ("ok", with result and whether the       *)
(* return was through Halt), returns Err ("err") or panics ("panic").      *)
(***************************************************************************)
Frame(ret_ip, base) == [ret_ip |-> ret_ip, base |-> base]

truthy(v) ==
    IF v.t = "Bool" THEN v.v = 1
    ELSE IF v.t = "Null" THEN FALSE
    ELSE IF v.t = "Int" THEN v.v # 0 ELSE TRUE

\* Rust's integer division truncates toward zero
TruncDiv(x, y) ==
    LET q == (IF x < 0 THEN -x ELSE x) \div (IF y < 0 THEN -y ELSE y)
    IN IF (x < 0) = (y < 0) THEN q ELSE -q

\* what makes run return Err, and what makes it panic
Err == Val("err", 0)

Panic == Val("panic", 0)

\* VM::add, sub, mul, div and the Mod arm on the values of the programs here
arith(op, a, b) ==
    IF a.t # "Int" \/ b.t # "Int" THEN Err
    ELSE CASE op = "Add" -> Val("Int", a.v + b.v)
           [] op = "Sub" -> Val("Int", a.v - b.v)
           [] op = "Mul" -> Val("Int", a.v * b.v)
           [] op = "Div" -> IF b.v = 0 THEN Err ELSE Val("Int", TruncDiv(a.v, b.v))
           [] op = "Mod" -> IF b.v = 0 THEN Panic
                            ELSE Val("Int", a.v - b.v * TruncDiv(a.v, b.v))

eq(a, b) == a.t = b.t /\ a.t \in {"Int", "Bool", "Str", "Null"} /\ a.v = b.v /\ a.str = b.str

\* VM::cmp: the ordering as Int -1, 0 or 1, or Err
cmp(a, b) ==
    IF a.t # "Int" \/ b.t # "Int" THEN Err
    ELSE Val("Int", IF a.v < b.v THEN -1 ELSE IF a.v = b.v THEN 0 ELSE 1)

Bool(b) == Val("Bool", IF b THEN 1 ELSE 0)

Stop(m, status) == [m EXCEPT !.status = status]

Push(m, v) == [m EXCEPT !.stack = Append(@, v)]

\* the stack without its top n values
Drop(m, n) == [m EXCEPT !.stack = SubSeq(@, 1, Len(@) - n)]

\* one round of the loop of VM::run
exec(m0) ==
    IF m0.ip >= Len(m0.module.code) THEN Stop(m0, "err")
    ELSE
    LET op == m0.module.code[m0.ip + 1]
        m == [m0 EXCEPT !.ip = @ + 1]
        n == Len(m.stack)
        top == m.stack[n]
        under == m.stack[n - 1]
        bp == IF m.frames = <<>> THEN 0 ELSE Last(m.frames).base
    IN CASE op.op = "Const" ->
              IF op.a >= Len(m.module.consts) THEN Stop(m, "panic")
              ELSE Push(m, m.module.consts[op.a + 1])
         [] op.op = "Int" -> Push(m, Val("Int", op.a))
         [] op.op = "True" -> Push(m, Bool(TRUE))
         [] op.op = "False" -> Push(m, Bool(FALSE))
         [] op.op = "Null" -> Push(m, Null)
         [] op.op = "LoadLocal" ->
              IF bp + op.a >= n THEN Stop(m, "panic") ELSE Push(m, m.stack[bp + op.a + 1])
         [] op.op = "StoreLocal" ->
              IF n = 0 THEN Stop(m, "panic")
              ELSE LET idx == bp + op.a
                       popped == SubSeq(m.stack, 1, n - 1)
                       resized == [i \in 1..(IF idx >= n - 1 THEN idx + 1 ELSE n - 1) |->
                                      IF i <= n - 1 THEN popped[i] ELSE Null]
                   IN [m EXCEPT !.stack = [resized EXCEPT ![idx + 1] = top]]
         [] op.op = "LoadGlobal" ->
              IF op.a >= Len(m.globals) THEN Stop(m, "panic") ELSE Push(m, m.globals[op.a + 1])
         [] op.op = "StoreGlobal" ->
              IF n = 0 \/ op.a >= Len(m.globals) THEN Stop(m, "panic")
              ELSE [Drop(m, 1) EXCEPT !.globals[op.a + 1] = top]
         [] op.op \in {"Add", "Sub", "Mul", "Div", "Mod"} ->
              IF n < 2 THEN Stop(m, "panic")
              ELSE LET r == arith(op.op, under, top)
                   IN IF r \in {Err, Panic} THEN Stop(Drop(m, 2), r.t)
                      ELSE Push(Drop(m, 2), r)
         [] op.op \in {"Eq", "NotEq"} ->
              IF n < 2 THEN Stop(m, "panic")
              ELSE Push(Drop(m, 2), Bool(eq(under, top) = (op.op = "Eq")))
         [] op.op \in {"Lt", "LtEq", "Gt", "GtEq"} ->
              IF n < 2 THEN Stop(m, "panic")
              ELSE LET r == cmp(under, top)
                   IN IF r = Err THEN Stop(Drop(m, 2), "err")
                      ELSE Push(Drop(m, 2),
                                Bool(CASE op.op = "Lt" -> r.v < 0 [] op.op = "LtEq" -> r.v <= 0
                                       [] op.op = "Gt" -> r.v > 0 [] op.op = "GtEq" -> r.v >= 0))
         [] op.op = "Jump" -> [m EXCEPT !.ip = op.a]
         [] op.op = "JumpIfFalse" ->
              IF n = 0 THEN Stop(m, "panic")
              ELSE IF ~truthy(top) THEN [Drop(m, 1) EXCEPT !.ip = op.a] ELSE Drop(m, 1)
         [] op.op = "Call" ->
              IF op.a >= Len(m.module.funcs) \/ n < op.b THEN Stop(m, "panic")
              ELSE [m EXCEPT !.frames = Append(@, Frame(m.ip, n - op.b)),
                             !.ip = m.module.funcs[op.a + 1].entry]
         [] op.op \in {"Return", "ReturnVal"} ->
              IF op.op = "ReturnVal" /\ n = 0 THEN Stop(m, "panic")
              ELSE LET ret == IF op.op = "ReturnVal" THEN top ELSE Null
                       popped == IF op.op = "ReturnVal" THEN Drop(m, 1) ELSE m
                   IN IF m.frames # <<>>
                      THEN [popped EXCEPT
                               !.stack = Append(SubSeq(@, 1, SetMin({Len(@), Last(m.frames).base})), ret),
                               !.ip = Last(m.frames).ret_ip,
                               !.frames = SubSeq(@, 1, Len(@) - 1)]
                      ELSE [Stop(popped, "ok") EXCEPT !.result = ret]
         [] op.op = "Pop" -> IF n = 0 THEN m ELSE Drop(m, 1)
         [] op.op = "NewArray" ->
              IF n < op.a THEN Stop(m, "panic")
              ELSE [Push(Drop(m, op.a), ArrayVal(Len(m.heap) + 1)) EXCEPT
                       !.heap = Append(@, SubSeq(m.stack, n - op.a + 1, n))]
         [] op.op = "GetField" ->
              \* no program here builds a Val::Obj: that arm is left out
              IF op.a >= Len(m.module.consts) THEN Stop(m, "panic")
              ELSE IF m.module.consts[op.a + 1].t # "Str" THEN Stop(m, "err")
              ELSE IF n = 0 THEN Stop(m, "panic")
              ELSE IF top.t = "Array" /\ m.module.consts[op.a + 1].str = "length"
              THEN Push(Drop(m, 1), Val("Int", Len(m.heap[top.v])))
              ELSE Stop(Drop(m, 1), "err")
         [] op.op = "ArrayGet" ->
              IF n < 2 THEN Stop(m, "panic")
              ELSE IF under.t = "Array" /\ top.t = "Int"
              THEN IF top.v < 0 \/ top.v >= Len(m.heap[under.v]) THEN Stop(Drop(m, 2), "panic")
                   ELSE Push(Drop(m, 2), m.heap[under.v][top.v + 1])
              ELSE Stop(Drop(m, 2), "err")
         [] op.op = "ArraySet" ->
              \* val is popped first, then idx_val, then container
              IF n < 3 THEN Stop(m, "panic")
              ELSE LET container == m.stack[n - 2]
                   IN IF container.t = "Array" /\ under.t = "Int"
                      THEN IF under.v < 0 \/ under.v >= Len(m.heap[container.v])
                           THEN Stop(Drop(m, 3), "panic")
                           ELSE [Drop(m, 3) EXCEPT !.heap[container.v][under.v + 1] = top]
                      ELSE Stop(Drop(m, 3), "err")
         [] op.op = "PrintInt" ->
              IF n = 0 THEN Stop(m, "panic")
              ELSE IF top.t # "Int" THEN Stop(Drop(m, 1), "err")
              ELSE [Push(Drop(m, 1), Null) EXCEPT !.out = Append(@, top.v)]
         [] op.op = "Halt" -> [Stop(m, "ok") EXCEPT !.result = Null, !.halted = TRUE]
         [] OTHER -> Stop(m, "err")

(***************************************************************************)
(* The programs compiled and run: the recursive factorial called from main *)
(* with an argument up to MaxArg, main before or after f; main returning   *)
(* an arithmetic expression of two literals; a void main that counts to    *)
(* MaxArg with a while loop and prints; a main reading a top-level         *)
(* constant; a program of constants only; and programs with no main (the   *)
(* shape the REPL compiles): literals at the edges of the inline range,    *)
(* array literals and element reads and writes, locals, and C-style for    *)
(* loops with continue                                                     *)
(***************************************************************************)
MaxArg == 5

Literals == {-7, 0, 1, 2, 40000}

Factorial ==
    FnDef("f", <<"n">>, "I32",
          <<If(Compare("LessEqual", Var("n"), IntLit(1)), <<ReturnOf(<<IntLit(1)>>)>>, <<>>),
            ReturnOf(<<Binary("Mul", Var("n"),
                              CallExpr("f", <<Binary("Sub", Var("n"), IntLit(1))>>))>>)>>)

MainReturning(e) == FnDef("main", <<>>, "I32", <<ReturnOf(<<e>>)>>)

CountingMain(k) ==
    FnDef("main", <<>>, "Void",
          <<Let("x", IntLit(0)),
            While(Compare("Less", Var("x"), IntLit(k)),
                  <<ExprStmt(CallExpr("print_int", <<Var("x")>>)),
                    Assign("x", Binary("Add", Var("x"), IntLit(1)))>>)>>)

\* the function the REPL wraps an expression in (main.rs, eval_expr) and the
\* one it wraps statements in (eval_stmt)
ReplEval(e) == FnDef("__repl_eval", <<>>, "I64", <<ReturnOf(<<e>>)>>)

ReplExec(body) == FnDef("__repl_exec", <<>>, "Void", body)

\* expressions of mixed operand types, remainders, element and field reads
MixedExprs ==
    {Binary("Mod", IntLit(a), IntLit(b)) : a \in {-7, 7}, b \in {0, 2}}
    \cup {Binary(op, BoolLit(TRUE), IntLit(1)) : op \in {"Add", "Div", "Mod"}}
    \cup {Compare(op, IntLit(1), BoolLit(FALSE)) : op \in {"Less", "Equal"}}
    \cup {Index(ArrayLit(<<IntLit(10), IntLit(20)>>), IntLit(k)) : k \in {-1, 0, 1, 2}}
    \cup {Index(IntLit(1), IntLit(0)),
          Field(IntLit(1), "f"),
          Field(ArrayLit(<<IntLit(10)>>), "f"),
          Field(ArrayLit(<<IntLit(10)>>), "length")}

PrintSum(a, b) == ExprStmt(CallExpr("print_int", <<Binary("Add", a, b)>>))

\* statement lists that declare locals and read them back after prints,
\* calls and returns
LocalBodies ==
    {<<Let("x", IntLit(5)), ExprStmt(CallExpr("print_int", args)),
       PrintSum(IntLit(7), Var("x"))>> : args \in {<<>>, <<Var("x")>>, <<IntLit(1), IntLit(2)>>}}
    \cup {<<Let("x", IntLit(2)), Let("y", CallExpr("f", <<IntLit(3)>>)),
            PrintSum(Var("x"), Var("y"))>>}

\* integer literals around the ends of the 16-bit range
BoundaryLiterals == {-40000, -32769, -32768, -32767, -1, 0, 32767, 32768}

\* for (let i = 0; i < k; i = i + 1) { body }
CountingFor(k, body) ==
    ForLoop(<<Let("i", IntLit(0))>>, <<Compare("Less", Var("i"), IntLit(k))>>,
            <<Assign("i", Binary("Add", Var("i"), IntLit(1)))>>, body)

ForBodies ==
    {<<ContinueStmt>>,
     <<ExprStmt(CallExpr("print_int", <<Var("i")>>))>>,
     <<If(Compare("Equal", Var("i"), IntLit(1)), <<ContinueStmt>>, <<>>)>>}

\* let a = [10, 20]; a[i] = v; print_int(a[i]);
ElementAssign(i, v) ==
    ReplExec(<<Let("a", ArrayLit(<<IntLit(10), IntLit(20)>>)),
               AssignTo(Index(Var("a"), IntLit(i)), IntLit(v)),
               ExprStmt(CallExpr("print_int", <<Index(Var("a"), IntLit(i))>>))>>)

AssignedValues == {0, 5}

\* let a = [10, 20]; let n = k; n[0] = a; print_int(a[1]);
ArrayAssignedIntoInt(k) ==
    ReplExec(<<Let("a", ArrayLit(<<IntLit(10), IntLit(20)>>)),
               Let("n", IntLit(k)),
               AssignTo(Index(Var("n"), IntLit(0)), Var("a")),
               ExprStmt(CallExpr("print_int", <<Index(Var("a"), IntLit(1))>>))>>)

Programs ==
    {<<Factorial, MainReturning(CallExpr("f", <<IntLit(k)>>))>> : k \in 0..MaxArg}
    \cup {<<ElementAssign(i, v)>> : i \in {0, 1}, v \in AssignedValues}
    \cup {<<ArrayAssignedIntoInt(k)>> : k \in {-1, 1, 2}}
    \cup {<<ReplExec(<<CountingFor(k, body)>>)>> : k \in 0..MaxArg, body \in ForBodies}
    \cup {<<ReplEval(IntLit(n))>> : n \in BoundaryLiterals}
    \cup {<<ReplEval(e)>> : e \in MixedExprs}
    \cup {<<ReplExec(body), Factorial>> : body \in LocalBodies}
    \cup {<<MainReturning(CallExpr("f", <<IntLit(k)>>)), Factorial>> : k \in 0..MaxArg}
    \cup {<<MainReturning(Binary(op, IntLit(a), IntLit(b)))>> :
            op \in {"Add", "Sub", "Mul", "Div"}, a \in Literals, b \in Literals}
    \cup {<<CountingMain(k)>> : k \in 0..MaxArg}
    \cup {<<ConstDef("g", 7), MainReturning(Var("g"))>>, <<ConstDef("g", 7)>>,
          <<MainReturning(Var("g")), ConstDef("g", 7)>>,
          <<MainReturning(CallExpr("h", <<>>))>>}
    \cup {<<FnDef("__repl_eval", <<>>, "I64", <<ReturnOf(<<Binary(op, IntLit(a), IntLit(b))>>)>>)>> :
            op \in {"Add", "Mul"}, a \in Literals, b \in {1, 2}}

InitVM ==
    /\ \E prog \in Programs :
        vm = [prog |-> prog, module |-> NewCompiler, status |-> "source", ip |-> 0,
              stack |-> <<>>, frames |-> <<>>, globals |-> <<>>, out |-> <<>>,
              result |-> Null, halted |-> FALSE, written |-> <<<<>>>>, heap |-> <<>>]
    /\ dce = Idle /\ cf = Idle /\ ph = Idle /\ ssa = Idle /\ ra = Idle /\ bld = Idle
    /\ optz = Idle /\ cfa = Idle /\ inl = Idle /\ repl = Idle /\ strs = Idle /\ eng = Idle

\* Compiler::new().compile(prog), then VM::new(module)
Compile ==
    /\ vm.status = "source"
    /\ LET module == compile(vm.prog)
       IN vm' = [vm EXCEPT !.module = module,
                           !.status = IF module.err THEN "rejected" ELSE "compiled",
                           !.globals = [i \in 1..Len(module.globals) |-> Null]]
    /\ UNCHANGED <<dce, cf, ph, ssa, ra, bld, optz, cfa, inl, repl, strs, eng>>

\* VM::run, up to its loop
Run ==
    /\ vm.status = "compiled"
    /\ vm' = [vm EXCEPT !.ip = vm.module.entry, !.status = "running"]
    /\ UNCHANGED <<dce, cf, ph, ssa, ra, bld, optz, cfa, inl, repl, strs, eng>>

\* the op the next round of the loop executes
NextOp(m) ==
    IF m.ip < Len(m.module.code) THEN m.module.code[m.ip + 1] ELSE Op("None", 0, 0)

\* written records, per call frame (the first entry is for the code run
\* without a frame), the value the last StoreLocal of each slot stored
track(m, after) ==
    LET op == NextOp(m)
    IN CASE op.op = "StoreLocal" /\ after.status = "running" ->
                [after EXCEPT !.written[Len(m.written)] = Insert(@, op.a, Last(m.stack))]
         [] op.op = "Call" /\ after.status = "running" ->
                [after EXCEPT !.written = Append(@, <<>>)]
         [] op.op \in {"Return", "ReturnVal"} /\ after.status = "running" ->
                [after EXCEPT !.written = SubSeq(@, 1, Len(@) - 1)]
         [] OTHER -> after

\* VM::run, one round of its loop
Step ==
    /\ vm.status = "running"
    /\ vm' = track(vm, exec(vm))
    /\ UNCHANGED <<dce, cf, ph, ssa, ra, bld, optz, cfa, inl, repl, strs, eng>>

NextVM == Compile \/ Run \/ Step

SpecVM == InitVM /\ [][NextVM]_vars

\* run's loop goes on to its next round until run returns
SpecVMLive == SpecVM /\ WF_vars(Step)

\* C3: when run returns successfully through Halt, the operand stack is empty
\* at the moment Halt executes, programs entered through the Call(main, 0);
\* Halt sentinel included
C3_StackEmptyAtHalt == (vm.status = "ok" /\ vm.halted) => vm.stack = <<>>

\* what the source program says main returns: n! for f(n), the arithmetic on
\* literals, the value of a top-level constant, Null for a void main
RECURSIVE Fact(_)
Fact(n) == IF n <= 1 THEN 1 ELSE n * Fact(n - 1)

RECURSIVE ExprValue(_, _)
ExprValue(prog, e) ==
    CASE e.e = "Int" -> e.n
      [] e.e = "Var" -> (CHOOSE item \in SeqToSet(prog) : item.top = "Const" /\ item.name = e.name).value
      [] e.e = "Binary" ->
            LET a == ExprValue(prog, e.args[1])
                b == ExprValue(prog, e.args[2])
            IN CASE e.name = "Add" -> a + b
                 [] e.name = "Sub" -> a - b
                 [] e.name = "Mul" -> a * b
                 [] e.name = "Div" -> TruncDiv(a, b)
      [] e.e = "Call" -> Fact(ExprValue(prog, e.args[1]))

MainValue(prog) ==
    LET main == CHOOSE item \in SeqToSet(prog) : item.top = "Function" /\ item.name = "main"
    IN IF main.ret = "Void" THEN Null ELSE Val("Int", ExprValue(prog, main.body[1].value[1]))

\* C4: for a program that has a main function, the result of a successful run
\* of the compiled module is the value main returned (120 for the factorial
\* program main() { return f(5); })
C4_RunYieldsMainsReturnValue ==
    (vm.status = "ok" /\ has_main(vm.prog)) => vm.result = MainValue(vm.prog)

\* the faults the runtime-error list names, on the op the next round executes:
\* the instruction pointer outside the code, an operand that is no Int under
\* an arithmetic op or an ordered comparison, an Int divided by 0 (Div, Mod),
\* a field read on a value that has no fields (the length of an array is
\* not counted), an array index below 0 or not below the length
NamedFault(m) ==
    /\ m.status = "running"
    /\ \/ m.ip >= Len(m.module.code)
       \/ LET op == NextOp(m)
              n == Len(m.stack)
              top == m.stack[n]
              under == m.stack[n - 1]
          IN \/ /\ op.op \in {"Add", "Sub", "Mul", "Div", "Mod", "Lt", "LtEq", "Gt", "GtEq"}
                /\ n >= 2
                /\ (top.t # "Int" \/ under.t # "Int")
             \/ /\ op.op \in {"Div", "Mod"}
                /\ n >= 2
                /\ top.t = "Int" /\ under.t = "Int" /\ top.v = 0
             \/ /\ op.op = "GetField"
                /\ n >= 1
                /\ ~(top.t = "Array" /\ m.module.consts[op.a + 1].str = "length")
             \/ /\ op.op = "ArrayGet"
                /\ n >= 2
                /\ under.t = "Array" /\ top.t = "Int"
                /\ (top.v < 0 \/ top.v >= Len(m.heap[under.v]))
             \/ /\ op.op = "ArraySet"
                /\ n >= 3
                /\ m.stack[n - 2].t = "Array" /\ under.t = "Int"
                /\ (under.v < 0 \/ under.v >= Len(m.heap[m.stack[n - 2].v]))

\* C14: each fault the spec names (instruction pointer out of range, type
\* mismatch in arithmetic or ordered comparison, integer division by zero in
\* Div and Mod, field access on a non-object, an array index that is negative
\* or not below the length) makes run stop and return an error value: it
\* neither aborts the process nor lets execution continue.
C14_NamedFaultsReturnAnError ==
    [][NamedFault(vm) => vm'.status = "err"]_vars

\* C13: within one call frame, once StoreLocal(s) has stored v and no later
\* StoreLocal(s) has run in that frame, every LoadLocal(s) run in that frame
\* pushes v, whatever pushes, pops, calls and returns happened in between.
C13_LoadLocalPushesTheStoredValue ==
    [][(/\ vm.status = "running"
        /\ NextOp(vm).op = "LoadLocal"
        /\ NextOp(vm).a \in DOMAIN Last(vm.written))
       => (/\ vm'.status = "running"
           /\ vm'.stack # <<>>
           /\ Last(vm'.stack) = Last(vm.written)[NextOp(vm).a])]_vars

\* the program is one function returning one integer literal, and is compiled
ReturnsLiteral ==
    /\ vm.status \notin {"source", "rejected"}
    /\ Len(vm.prog) = 1
    /\ vm.prog[1].top = "Function"
    /\ Len(vm.prog[1].body) = 1
    /\ vm.prog[1].body[1].s = "Return"
    /\ vm.prog[1].body[1].value # <<>>
    /\ vm.prog[1].body[1].value[1].e = "Int"

TheLiteral == vm.prog[1].body[1].value[1].n

\* the first op the function's body compiles to
LiteralOp == vm.module.code[vm.module.funcs[1].entry + 1]

EmitsInline == LiteralOp = Op("Int", TheLiteral, 0)

EmitsPooled ==
    /\ LiteralOp.op = "Const"
    /\ LiteralOp.a < Len(vm.module.consts)
    /\ vm.module.consts[LiteralOp.a + 1] = Val("Int", TheLiteral)

ConstNames(prog) == {prog[i].name : i \in {j \in 1..Len(prog) : prog[j].top = "Const"}}

\* C27: in a program that has a main function the ops that initialise each
\* top-level constant (value; StoreGlobal) have executed before an op of
\* main's body reads the constant: main never reads such a global as Null.
C27_MainNeverReadsConstantAsNull ==
    (/\ vm.status = "running"
     /\ has_main(vm.prog)
     /\ NextOp(vm).op = "LoadGlobal"
     /\ NextOp(vm).a < Len(vm.globals)
     /\ vm.module.globals[NextOp(vm).a + 1] \in ConstNames(vm.prog))
    => vm.globals[NextOp(vm).a + 1] # Null

\* a statement list with a continue in it, at any depth of if
RECURSIVE HasContinue(_)
HasContinue(body) ==
    \E i \in 1..Len(body) :
        \/ body[i].s = "Continue"
        \/ body[i].s = "If" /\ (HasContinue(body[i].body) \/ HasContinue(body[i].else_body))

\* the program's function has a for loop with an increment whose body
\* executes continue
ForLoopWithContinue(prog) ==
    \E i \in 1..Len(prog) :
        /\ prog[i].top = "Function"
        /\ \E j \in 1..Len(prog[i].body) :
              /\ prog[i].body[j].s = "For"
              /\ prog[i].body[j].inc # <<>>
              /\ HasContinue(prog[i].body[j].body)

\* C25: in the bytecode of a C-style for loop, continue is followed by the
\* loop's increment before the condition is evaluated again, so a loop whose
\* only progress is made by its increment terminates also when its body
\* executes continue: the run of such a program comes to an end.
C25_ForLoopWithContinueTerminates ==
    (vm.status = "running" /\ ForLoopWithContinue(vm.prog)) ~> (vm.status # "running")

\* C26: after the compiled element assignment a[i] = v has executed on an
\* array a with 0 <= i < length(a), the run goes on without error and a
\* later read of a[i] yields v (the program prints v and nothing else).
C26_ElementAssignmentStoresTheValue ==
    \A i \in {0, 1}, v \in AssignedValues :
        vm.prog = <<ElementAssign(i, v)>> =>
            /\ vm.status \notin {"err", "panic"}
            /\ vm.status = "ok" => vm.out = <<v>>

(***************************************************************************)
(* inline_optimizer.rs.  An IRProgram is the sequence of its functions in  *)
(* any order (the code iterates a HashMap); a function carries its name,   *)
(* its blocks, is_pure and the attributes inline and no_inline.  A Call    *)
(* names its callee in the field func.                                     *)
(***************************************************************************)
CallTo(dst, callee, args, ty) ==
    [op |-> "Call", dst |-> dst, args |-> args, t |-> None, f |-> None, ty |-> ty,
     func |-> callee]

IRFunction(name, blocks, is_pure, inline, no_inline) ==
    [name |-> name, blocks |-> blocks, is_pure |-> is_pure,
     attributes |-> [inline |-> inline, no_inline |-> no_inline]]

\* InlineOptimizer::new()
inline_threshold == 50

always_inline == {}

never_inline == {}

FunctionNames(program) == {program[i].name : i \in 1..Len(program)}

FunctionNamed(program, name) == program[CHOOSE i \in 1..Len(program) : program[i].name = name]

\* build_call_graph: for every function the callees of its Call instructions
build_call_graph(program) ==
    [name \in FunctionNames(program) |->
        LET calls == SelectSeq(AllInstrs(FunctionNamed(program, name)), LAMBDA x : x.op = "Call")
        IN [k \in 1..Len(calls) |-> calls[k].func]]

\* is_recursive_helper: found, and the visited set it leaves to its caller
RECURSIVE is_recursive_helper(_, _, _, _)
RECURSIVE is_recursive_callees(_, _, _, _)
is_recursive_helper(current, target, call_graph, visited) ==
    IF current \in visited THEN [found |-> FALSE, visited |-> visited]
    ELSE IF current \in DOMAIN call_graph
    THEN is_recursive_callees(call_graph[current], target, call_graph, visited \cup {current})
    ELSE [found |-> FALSE, visited |-> visited \cup {current}]

\* the for loop over the callees of one function
is_recursive_callees(callees, target, call_graph, visited) ==
    IF callees = <<>> THEN [found |-> FALSE, visited |-> visited]
    ELSE IF Head(callees) = target THEN [found |-> TRUE, visited |-> visited]
    ELSE LET r == is_recursive_helper(Head(callees), target, call_graph, visited)
         IN IF r.found THEN r
            ELSE is_recursive_callees(Tail(callees), target, call_graph, r.visited)

is_recursive(func, call_graph) == is_recursive_helper(func, func, call_graph, {}).found

instr_count(func) == Len(AllInstrs(func))

\* identify_inline_candidates, the body of its for loop for one function
is_inline_candidate(func, call_graph) ==
    IF func.attributes.no_inline \/ func.name \in never_inline THEN FALSE
    ELSE IF func.attributes.inline = "Always" \/ func.name \in always_inline THEN TRUE
    ELSE \/ instr_count(func) <= inline_threshold /\ ~is_recursive(func.name, call_graph)
         \/ func.is_pure /\ func.attributes.inline = "Hint"

identify_inline_candidates(program, call_graph) ==
    {name \in FunctionNames(program) :
        is_inline_candidate(FunctionNamed(program, name), call_graph)}

\* InlineOptimizer::run: the program is left as it is, and the pass reports a
\* change when there is a candidate and the program has a function
inline_run(program) ==
    LET inline_candidates == identify_inline_candidates(program, build_call_graph(program))
    IN [program |-> program,
        changed |-> inline_candidates # {} /\ program # <<>>]

(***************************************************************************)
(* The programs the inliner is run on: the functions f and g, each with    *)
(* one block that calls f, g, the external function h or nothing, short or *)
(* longer than the threshold, with every combination of the attributes     *)
(***************************************************************************)
MaxCalls == 1

CalleeNames == {"f", "g", "h"}

InlineBody(callees, long) ==
    [k \in 1..Len(callees) |-> CallTo(k, callees[k], <<>>, "I32")]
    \o (IF long THEN [k \in 1..inline_threshold |-> Move(9, I32(k))] ELSE <<>>)
    \o <<Return(<<I32(0)>>)>>

InlineFunctions(name) ==
    {IRFunction(name, <<[IRBasicBlock(0) EXCEPT !.instructions = InlineBody(callees, long)]>>,
                is_pure, inline, no_inline) :
        callees \in UNION {[1..n -> CalleeNames] : n \in 0..MaxCalls},
        long \in BOOLEAN, is_pure \in BOOLEAN,
        inline \in {"None", "Always", "Hint"}, no_inline \in BOOLEAN}

InitInline ==
    /\ \E f \in InlineFunctions("f"), g \in InlineFunctions("g"), swap \in BOOLEAN :
        inl = [program |-> IF swap THEN <<g, f>> ELSE <<f, g>>, pc |-> "call_graph",
               call_graph |-> <<>>, inline_candidates |-> {}, changed |-> FALSE]
    /\ dce = Idle /\ cf = Idle /\ ph = Idle /\ ssa = Idle /\ ra = Idle /\ bld = Idle
    /\ vm = Idle /\ optz = Idle /\ cfa = Idle /\ repl = Idle /\ strs = Idle /\ eng = Idle

\* InlineOptimizer::run, its three steps in order
BuildCallGraph ==
    /\ inl.pc = "call_graph"
    /\ inl' = [inl EXCEPT !.call_graph = build_call_graph(inl.program), !.pc = "candidates"]
    /\ UNCHANGED <<dce, cf, ph, ssa, ra, bld, vm, optz, cfa, repl, strs, eng>>

IdentifyInlineCandidates ==
    /\ inl.pc = "candidates"
    /\ inl' = [inl EXCEPT
                 !.inline_candidates = identify_inline_candidates(inl.program, inl.call_graph),
                 !.pc = "inline"]
    /\ UNCHANGED <<dce, cf, ph, ssa, ra, bld, vm, optz, cfa, repl, strs, eng>>

InlineCalls ==
    /\ inl.pc = "inline"
    /\ inl' = [inl EXCEPT !.changed = inline_run(inl.program).changed, !.pc = "done"]
    /\ UNCHANGED <<dce, cf, ph, ssa, ra, bld, vm, optz, cfa, repl, strs, eng>>

NextInline == BuildCallGraph \/ IdentifyInlineCandidates \/ InlineCalls

SpecInline == InitInline /\ [][NextInline]_vars

\* a function is recursive when a chain of one or more calls leads from it
\* back to itself
RECURSIVE CallsReach(_, _, _)
CallsReach(program, from, n) ==
    LET direct == IF from \in FunctionNames(program)
                  THEN SeqToSet(build_call_graph(program)[from]) ELSE {}
    IN IF n = 0 THEN direct
       ELSE direct \cup UNION {CallsReach(program, c, n - 1) : c \in direct}

IsRecursiveFunction(program, name) == name \in CallsReach(program, name, Len(program))

\* C20: the inliner never selects as an inline candidate a function that is
\* marked never-inline or that is recursive, directly or through other
\* functions, even when the function is also marked inline-always or is
\* pure with an inline hint
C20_NoNeverInlineOrRecursiveCandidate ==
    \A name \in inl.inline_candidates :
        /\ ~FunctionNamed(inl.program, name).attributes.no_inline
        /\ ~IsRecursiveFunction(inl.program, name)

(***************************************************************************)
(* ir_builder.rs, expressions: integer literals, parameters and binary     *)
(* operations; build_expression yields the builder state and the IRValue   *)
(***************************************************************************)
ASTInt(n) == [e |-> "Int", v |-> n]

ASTParam(i) == [e |-> "VarRef", v |-> i]

ASTBinary(op, left, right) == [e |-> "Binary", op |-> op, left |-> left, right |-> right]

ASTStr(text) == [e |-> "Str", v |-> text]

\* IRValue::Global(format!("__str_{}", id)): the prefix and the number
StrRef(id) == [k |-> "global", ty |-> "__str_", v |-> id]

IsStrRef(val) == val.k = "global" /\ val.ty = "__str_"

infer_type(val) == IF IsConst(val) THEN val.ty ELSE "I32"

RECURSIVE build_expression(_, _)
build_expression(st, expr) ==
    CASE expr.e = "Int" -> [st |-> st, value |-> I32(expr.v)]
      [] expr.e = "VarRef" -> [st |-> st, value |-> Argument(expr.v)]
      [] expr.e = "Str" ->
            \* string_literals is the HashMap of the program being built
            LET id == Cardinality(DOMAIN st.string_literals)
            IN [st |-> [st EXCEPT !.string_literals = Insert(@, expr.v, id)],
                value |-> StrRef(id)]
      [] expr.e = "Binary" ->
            LET lhs == build_expression(st, expr.left)
                rhs == build_expression(lhs.st, expr.right)
                dst == rhs.st.register_counter
                is_string == expr.op = "Add" /\ (IsStrRef(lhs.value) \/ IsStrRef(rhs.value))
            IN [st |-> emit_instruction(next_register(rhs.st),
                          IF is_string
                          THEN CallTo(dst, "string_concat_int", <<lhs.value, rhs.value>>, "Ptr")
                          ELSE Ins(expr.op, dst, <<lhs.value, rhs.value>>, None, None,
                                   infer_type(lhs.value))),
                value |-> Reg(dst)]

\* IRBuilder::build_function up to its loop over the body
NewBuilder(return_type) ==
    [body |-> <<>>, rest |-> <<>>, return_type |-> return_type, pc |-> "body",
     blocks |-> <<IRBasicBlock(0)>>, current_block |-> 0, block_counter |-> 1,
     register_counter |-> 0, local_counter |-> 0, loop_stack |-> <<>>, err |-> FALSE,
     string_literals |-> <<>>]

\* build_statement, Statement::VarDecl with an initial value
build_var_decl(st, value) ==
    LET val_reg == build_expression([st EXCEPT !.local_counter = @ + 1], value)
    IN emit_instruction(val_reg.st, Store(Local(st.local_counter), val_reg.value, "Ptr"))

\* the default return build_function adds when the last block is open
default_return(st) ==
    IF has_terminator(st) THEN st
    ELSE IF st.return_type = "Void" THEN emit_instruction(st, Return(<<>>))
    ELSE emit_instruction(st, Return(<<I32(0)>>))

\* i32 fn name(...) { return expr; }
build_return_function(name, expr) ==
    LET value == build_expression(NewBuilder("I32"), expr)
    IN IRFunction(name, default_return(emit_instruction(value.st, Return(<<value.value>>))).blocks,
                  FALSE, "None", FALSE)

\* i32 fn name() { body }
build_function(name, body) ==
    IRFunction(name, default_return(build_body(NewBuilder("I32"), body)).blocks,
               FALSE, "None", FALSE)

(***************************************************************************)
(* The passes as the optimizer runs them: each pass on every function of   *)
(* the program; a pass yields the program, the bool it reports, and hangs  *)
(* when one of its loops never ends                                        *)
(***************************************************************************)
PassResult(program, changed, hangs) ==
    [program |-> program, changed |-> changed, hangs |-> hangs]

\* ConstantFolder::fold_function
fold_function(func) ==
    LET folded == [i \in 1..Len(func.blocks) |-> fold_block(func.blocks[i].instructions)]
    IN [func |-> [func EXCEPT !.blocks = [i \in 1..Len(func.blocks) |->
                     [func.blocks[i] EXCEPT !.instructions = folded[i].instructions]]],
        changed |-> \E i \in 1..Len(func.blocks) : folded[i].changed,
        hangs |-> FALSE]

\* PeepholeOptimizer::optimize_block from index i on
RECURSIVE optimize_block(_, _, _)
optimize_block(instructions, i, changed) ==
    IF i >= Len(instructions) THEN [instructions |-> instructions, changed |-> changed]
    ELSE LET pair == IF i + 1 < Len(instructions)
                     THEN try_pattern_match_pair(instructions[i + 1], instructions[i + 2])
                     ELSE <<>>
             single == try_pattern_match_single(instructions[i + 1])
         IN IF pair # <<>>
            THEN Only({optimize_block(spliced, i, TRUE) :
                         spliced \in {SubSeq(instructions, 1, i) \o pair
                                        \o SubSeq(instructions, i + 3, Len(instructions))}})
            ELSE IF single # NoInstr
            THEN Only({optimize_block(replaced, i + 1, TRUE) :
                         replaced \in {[instructions EXCEPT ![i + 1] = single]}})
            ELSE optimize_block(instructions, i + 1, changed)

\* PeepholeOptimizer::optimize_function
optimize_function(func) ==
    LET done == [i \in 1..Len(func.blocks) |->
                    optimize_block(func.blocks[i].instructions, 0, FALSE)]
    IN [func |-> [func EXCEPT !.blocks = [i \in 1..Len(func.blocks) |->
                     [func.blocks[i] EXCEPT !.instructions = done[i].instructions]]],
        changed |-> \E i \in 1..Len(func.blocks) : done[i].changed,
        hangs |-> FALSE]

\* SSATransform::insert_phi_nodes, the registers taken in ascending order
RECURSIVE insert_phi_nodes(_, _, _)
insert_phi_nodes(func, orig, regs) ==
    IF regs = <<>> THEN func
    ELSE insert_phi_nodes(phi_worklist(func, Head(regs), def_blocks(orig, Head(regs)), {}),
                          orig, Tail(regs))

\* SSATransform::transform_to_ssa: it reports true for every function that
\* has a block
transform_to_ssa(func) ==
    IF func.blocks = <<>> THEN [func |-> func, changed |-> FALSE, hangs |-> FALSE]
    ELSE Only({IF frontiers.hangs
               THEN [func |-> frontiers.func, changed |-> FALSE, hangs |-> TRUE]
               ELSE [func |-> rename_variables(
                                 insert_phi_nodes(frontiers.func, frontiers.func,
                                                  SortedSeq(def_registers(frontiers.func)))),
                     changed |-> TRUE, hangs |-> FALSE] :
                 frontiers \in {Only({compute_dominance_frontiers(dominated) :
                                        dominated \in {compute_dominance(func)}})}})

(***************************************************************************)
(* loop_optimizer.rs                                                       *)
(***************************************************************************)
unroll_threshold == 8

\* identify_loops: a block with a predecessor of a higher id heads a loop
\* whose body is the block and the first such predecessor
identify_loops(func) ==
    LET heads == SelectSeq(func.blocks,
                           LAMBDA b : \E k \in 1..Len(b.predecessors) : b.predecessors[k] > b.id)
    IN [i \in 1..Len(heads) |->
          [header |-> heads[i].id,
           body_blocks |-> <<heads[i].id,
                             SelectSeq(heads[i].predecessors, LAMBDA q : q > heads[i].id)[1]>>]]

\* the comparison of a Cmp: the Cmp instructions of this model are the ones
\* build_match_statement emits for a literal arm, CmpOp::Eq
CmpOpOf(instr) == "Eq"

\* get_trip_count: the first Cmp of the header that compares a register with
\* a positive I32 constant by Lt or Le; None when there is none
get_trip_count(func, loop_info) ==
    LET found == SelectSeq(func.blocks, LAMBDA b : b.id = loop_info.header)
        cmps == IF found = <<>> THEN <<>>
                ELSE SelectSeq(found[1].instructions,
                        LAMBDA x : /\ x.op = "Cmp" /\ CmpOpOf(x) \in {"Lt", "Le"}
                                   /\ IsReg(x.args[1])
                                   /\ \E n \in 1..unroll_threshold + 1 : x.args[2] = I32(n))
    IN IF cmps = <<>> THEN None
       ELSE CHOOSE n \in 1..unroll_threshold + 1 : cmps[1].args[2] = I32(n)

is_value_invariant(val) == val.k \in {"const", "global"}

is_loop_invariant(instr) ==
    /\ instr.op \in {"Add", "Sub", "Mul"}
    /\ is_value_invariant(instr.args[1]) /\ is_value_invariant(instr.args[2])

BodyBlocks(func, loop_info) ==
    SelectSeq(func.blocks, LAMBDA b : b.id \in SeqToSet(loop_info.body_blocks))

\* unroll_loop and hoist_invariant_code only report
unroll_loop(func, loop_info, trip_count) ==
    trip_count <= unroll_threshold /\ BodyBlocks(func, loop_info) # <<>>

hoist_invariant_code(func, loop_info) ==
    \E b \in SeqToSet(BodyBlocks(func, loop_info)) :
        \E x \in SeqToSet(b.instructions) : is_loop_invariant(x)

\* apply_strength_reduction: Mul by an I32 power of two becomes Shl
strength_reduce(instr) ==
    IF instr.op = "Mul" /\ (instr.args[2] = I32(1) \/ IsPowerOfTwoConst(instr.args[2]))
    THEN Ins("Shl", instr.dst,
             <<instr.args[1],
               I32(CHOOSE k \in 0..30 : instr.args[2] = I32(2 ^ k))>>, None, None, "")
    ELSE instr

apply_strength_reduction(func, loop_info) ==
    [func EXCEPT !.blocks = [i \in 1..Len(func.blocks) |->
        IF func.blocks[i].id \in SeqToSet(loop_info.body_blocks)
        THEN [func.blocks[i] EXCEPT !.instructions =
                [k \in 1..Len(func.blocks[i].instructions) |->
                    strength_reduce(func.blocks[i].instructions[k])]]
        ELSE func.blocks[i]]]

optimize_loop(func, loop_info) ==
    LET trip_count == get_trip_count(func, loop_info)
        reduced == apply_strength_reduction(func, loop_info)
    IN [func |-> reduced,
        changed |-> \/ trip_count # None /\ unroll_loop(func, loop_info, trip_count)
                    \/ hoist_invariant_code(func, loop_info)
                    \/ reduced # func]

\* optimize_loops: the loops are identified once, then optimized in turn
RECURSIVE optimize_loops_from(_, _, _)
optimize_loops_from(func, loops, changed) ==
    IF loops = <<>> THEN [func |-> func, changed |-> changed, hangs |-> FALSE]
    ELSE LET r == optimize_loop(func, Head(loops))
         IN optimize_loops_from(r.func, Tail(loops), changed \/ r.changed)

optimize_loops(func) == optimize_loops_from(func, identify_loops(func), FALSE)

(***************************************************************************)
(* ir_optimizer.rs                                                         *)
(***************************************************************************)
get_pass_pipeline(level) ==
    CASE level = "None" -> <<>>
      [] level = "Basic" -> <<"ConstantFolding", "DeadCodeElimination">>
      [] level = "Aggressive" ->
            <<"ConstantFolding", "DeadCodeElimination", "SSATransform", "Inlining",
              "LoopOptimization", "Peephole">>
      [] level = "Maximum" ->
            <<"ConstantFolding", "SSATransform", "Inlining", "LoopOptimization",
              "DeadCodeElimination", "Peephole", "ConstantPropagation",
              "CommonSubexpressionElimination">>

get_iteration_count_long(level) ==
    CASE level = "None" -> 0
      [] level = "Basic" -> 2
      [] level = "Aggressive" -> 3
      [] level = "Maximum" -> 5

get_iteration_count(level) ==
    CASE level = "None" -> 0
      [] level = "Basic" -> 1
      [] level = "Aggressive" -> 3
      [] level = "Maximum" -> 5

\* `for func in program.functions.values_mut() { changed |= pass(func) }`
\* from function i on
RECURSIVE for_each_function(_, _, _, _)
for_each_function(program, pass(_), i, changed) ==
    IF i > Len(program) THEN PassResult(program, changed, FALSE)
    ELSE Only({IF r.hangs THEN PassResult([program EXCEPT ![i] = r.func], changed, TRUE)
               ELSE Only({for_each_function(next, pass, i + 1, c) :
                            next \in {[program EXCEPT ![i] = r.func]},
                            c \in {changed \/ r.changed}}) :
                 r \in {pass(program[i])}})

dce_function(func) ==
    LET r == eliminate_dead_code(func)
    IN [func |-> r.func, changed |-> r.changed, hangs |-> FALSE]

run_pass(program, pass) ==
    CASE pass = "ConstantFolding" -> for_each_function(program, fold_function, 1, FALSE)
      [] pass = "DeadCodeElimination" -> for_each_function(program, dce_function, 1, FALSE)
      [] pass = "SSATransform" -> for_each_function(program, transform_to_ssa, 1, FALSE)
      [] pass = "Inlining" -> PassResult(program, inline_run(program).changed, FALSE)
      [] pass = "LoopOptimization" -> for_each_function(program, optimize_loops, 1, FALSE)
      [] pass = "Peephole" -> for_each_function(program, optimize_function, 1, FALSE)
      [] pass = "ConstantPropagation" -> PassResult(program, FALSE, FALSE)
      [] pass = "CommonSubexpressionElimination" -> PassResult(program, FALSE, FALSE)

(***************************************************************************)
(* The programs the optimizer is run on, as IRBuilder builds them (no CFG  *)
(* edge is filled in: nothing calls build_cfg before the optimizer):       *)
(* the empty program and programs of one or two of the functions           *)
(*   main  { return e; }  for the expressions e below                      *)
(*   f     { one of the bodies below }                                     *)
(* each program optimized MaxRuns times in a row at one level              *)
(***************************************************************************)
MaxRuns == 2

OptLevels == {"None", "Basic", "Aggressive", "Maximum"}

\* 2 + 3 * 4
TwoPlusThreeTimesFour == ASTBinary("Add", ASTInt(2), ASTBinary("Mul", ASTInt(3), ASTInt(4)))

OptExprs ==
    { TwoPlusThreeTimesFour,
      ASTInt(7),
      ASTBinary("Mul", ASTBinary("Add", ASTInt(1), ASTInt(2)), ASTInt(4)),
      ASTBinary("Add", ASTBinary("Mul", ASTParam(0), ASTInt(1)), ASTInt(0)),
      ASTBinary("Sub", ASTBinary("Add", ASTParam(0), ASTInt(0)), ASTInt(0)),
      ASTBinary("Div", ASTInt(6), ASTBinary("Sub", ASTInt(2), ASTInt(2))) }

\* {}   let x = 1;   return 1;   if c { return 1; } else { return 1; }
\* while c { break; }   for (;;) { break; }   for (let i = 1; c; i = 1) { let x = 1; }
\* match x { 0 => { return 1; } }   let x = 1; for (;;) { break; }
OptBodies ==
    { <<>>,
      <<VarDecl>>,
      <<ReturnStmt>>,
      <<Stmt("If", <<ReturnStmt>>, <<ReturnStmt>>, <<>>, {})>>,
      <<Stmt("While", <<Break>>, <<>>, <<>>, {})>>,
      <<Stmt("For", <<Break>>, <<>>, <<>>, {})>>,
      <<Stmt("For", <<VarDecl>>, <<>>, <<>>, {"init", "cond", "inc"})>>,
      <<Stmt("Match", <<>>, <<>>, <<MatchArm("Literal", <<ReturnStmt>>)>>, {})>>,
      <<VarDecl, Stmt("For", <<Break>>, <<>>, <<>>, {})>> }

OptPrograms ==
    {<<>>}
    \cup {<<build_return_function("main", e)>> : e \in OptExprs}
    \cup {<<build_function("f", body)>> : body \in OptBodies}
    \cup {<<build_return_function("main", e), build_function("f", body)>> :
            e \in {TwoPlusThreeTimesFour}, body \in OptBodies}

InitOpt ==
    /\ \E level \in OptLevels, program \in OptPrograms :
        optz = [level |-> level, input |-> program, program |-> program, run |-> 1,
                first |-> <<>>, pc |-> "optimize", iterations |-> 0, pass |-> 0,
                changed |-> FALSE, trace |-> <<>>]
    /\ dce = Idle /\ cf = Idle /\ ph = Idle /\ ssa = Idle /\ ra = Idle /\ bld = Idle
    /\ vm = Idle /\ cfa = Idle /\ inl = Idle /\ repl = Idle /\ strs = Idle /\ eng = Idle

\* IROptimizer::optimize: level None returns at once, the others enter
\* run_passes
Optimize ==
    /\ optz.pc = "optimize"
    /\ optz' = [optz EXCEPT !.pc = IF optz.level = "None" THEN "done" ELSE "iterate",
                            !.iterations = 0, !.pass = 0, !.changed = FALSE, !.trace = <<>>]
    /\ UNCHANGED <<dce, cf, ph, ssa, ra, bld, vm, cfa, inl, repl, strs, eng>>

\* run_passes, `for _ in 0..self.get_iteration_count()`: the next outer
\* iteration starts, or the range is exhausted
BeginIteration ==
    /\ optz.pc = "iterate"
    /\ optz' = IF optz.iterations < get_iteration_count(optz.level)
               THEN [optz EXCEPT !.iterations = @ + 1, !.pass = 0, !.changed = FALSE,
                                 !.trace = <<>>, !.pc = "passes"]
               ELSE [optz EXCEPT !.pc = "done"]
    /\ UNCHANGED <<dce, cf, ph, ssa, ra, bld, vm, cfa, inl, repl, strs, eng>>

\* `for pass in &passes { changed |= self.run_pass(program, pass)?; }`, one
\* pass
RunPass ==
    /\ optz.pc = "passes" /\ optz.pass < Len(get_pass_pipeline(optz.level))
    /\ LET pass == get_pass_pipeline(optz.level)[optz.pass + 1]
           r == run_pass(optz.program, pass)
       IN optz' = [optz EXCEPT !.program = r.program,
                               !.changed = @ \/ r.changed,
                               !.trace = Append(@, pass),
                               !.pass = @ + 1,
                               !.pc = IF r.hangs THEN "hangs" ELSE "passes"]
    /\ UNCHANGED <<dce, cf, ph, ssa, ra, bld, vm, cfa, inl, repl, strs, eng>>

\* `if !changed { break; }` at the end of an outer iteration
EndIteration ==
    /\ optz.pc = "passes" /\ optz.pass = Len(get_pass_pipeline(optz.level))
    /\ optz' = [optz EXCEPT !.pc = IF optz.changed THEN "iterate" ELSE "done"]
    /\ UNCHANGED <<dce, cf, ph, ssa, ra, bld, vm, cfa, inl, repl, strs, eng>>

\* the optimizer is run again on its own result
OptimizeAgain ==
    /\ optz.pc = "done" /\ optz.run < MaxRuns
    /\ optz' = [optz EXCEPT !.run = @ + 1, !.pc = "optimize",
                            !.first = IF optz.run = 1 THEN optz.program ELSE @]
    /\ UNCHANGED <<dce, cf, ph, ssa, ra, bld, vm, cfa, inl, repl, strs, eng>>

NextOpt == Optimize \/ BeginIteration \/ RunPass \/ EndIteration \/ OptimizeAgain

SpecOpt == InitOpt /\ [][NextOpt]_vars

\* the optimizer runs to completion: no step of it waits for anything
SpecOptLive == SpecOpt /\ WF_vars(NextOpt)

\* the program under optimization holds main { return 2 + 3 * 4; }
HasMainTwoPlusThreeTimesFour ==
    /\ optz.input # <<>>
    /\ optz.input[1] = build_return_function("main", TwoPlusThreeTimesFour)

\* a function returns the constant c outright, or through one register that
\* a Move of c defines, and computes nothing else
ReturnsConstant(func, c) ==
    LET instrs == AllInstrs(func)
    IN /\ \A i \in 1..Len(instrs) : instrs[i].op \in {"Move", "Return"}
       /\ \E i \in 1..Len(instrs) :
            /\ instrs[i].op = "Return" /\ instrs[i].args # <<>>
            /\ \/ instrs[i].args[1] = c
               \/ /\ IsReg(instrs[i].args[1])
                  /\ \E k \in 1..Len(instrs) : instrs[k] = Move(instrs[i].args[1].v, c)
                  /\ \A k \in 1..Len(instrs) :
                        instrs[k].dst = instrs[i].args[1].v =>
                            instrs[k] = Move(instrs[i].args[1].v, c)

\* C11: for i32 fn main() { return 2+3*4; } the optimizer collapses main's
\* body to a return of the constant 14: when optimization has finished at
\* any level but None, no Add or Mul is left in main and main returns the
\* constant 14
C11_NestedLiteralFoldsToFourteen ==
    (optz.pc = "done" /\ optz.level # "None" /\ HasMainTwoPlusThreeTimesFour)
        => ReturnsConstant(optz.program[1], I32(14))

\* the caps and the pipelines of the documentation
DocumentedCap(level) ==
    CASE level = "None" -> 0
      [] level = "Basic" -> 1
      [] level = "Aggressive" -> 3
      [] level = "Maximum" -> 5

DocumentedOrder ==
    <<"ConstantFolding", "DeadCodeElimination", "SSATransform", "Inlining",
      "LoopOptimization", "Peephole">>

DocumentedPipeline(level) ==
    CASE level = "None" -> <<>>
      [] level = "Basic" -> SubSeq(DocumentedOrder, 1, 2)
      [] level = "Aggressive" -> DocumentedOrder
      [] level = "Maximum" ->
            DocumentedOrder \o <<"ConstantPropagation", "CommonSubexpressionElimination">>

IterationComplete ==
    optz.pc = "passes" /\ optz.pass = Len(get_pass_pipeline(optz.level))

\* C15: IROptimizer::optimize always terminates; it runs at most 0, 1, 3 and
\* 5 outer iterations at None, Basic, Aggressive and Maximum; an outer
\* iteration that completes with no pass reporting a change is the last one;
\* and optimize stops below the cap only at the end of such an iteration
C15_TerminatesWithinTheCap ==
    /\ [](optz.iterations <= DocumentedCap(optz.level))
    /\ [][(IterationComplete /\ ~optz.changed) => optz'.pc = "done"]_vars
    /\ [][(optz.pc # "done" /\ optz'.pc = "done"
            /\ optz'.iterations < DocumentedCap(optz.level))
          => (IterationComplete /\ ~optz.changed)]_vars
    /\ (optz.pc # "done") ~> (optz.pc = "done")

\* optimize has stopped below the cap after an iteration without a change
C15_Witness_ConvergedBelowCap ==
    /\ optz.pc = "done" /\ optz.level = "Aggressive"
    /\ optz.iterations = 1 /\ ~optz.changed /\ Len(optz.trace) = 6

\* C16: within every outer iteration each pass of the level's pipeline runs
\* exactly once and in the documented order const-fold, DCE, SSA transform,
\* inlining, loop optimisation, peephole; Maximum runs these six in the same
\* relative order and then the constant-propagation and CSE placeholders
C16_PassesRunOnceInDocumentedOrder ==
    IterationComplete => optz.trace = DocumentedPipeline(optz.level)

\* the blocks and instructions of a program
Code(program) ==
    [i \in 1..Len(program) |->
        [name |-> program[i].name,
         blocks |-> [b \in 1..Len(program[i].blocks) |->
                        [id |-> program[i].blocks[b].id,
                         instructions |-> program[i].blocks[b].instructions]]]]

\* C17: optimisation is idempotent once converged: when optimize is run
\* again on its own result, at the same level, no block and no instruction
\* is added, removed or rewritten
C17_SecondOptimizeChangesNothing ==
    optz.run >= 2 => Code(optz.program) = Code(optz.first)


(***************************************************************************)
(* control_flow.rs: ControlFlowAnalyzer::analyze, followed by the passes   *)
(* that remove blocks (DeadCodeEliminator, once per optimizer iteration)   *)
(***************************************************************************)
\* one round of the for loop of compute_dominators, from position i on; a
\* block without predecessors keeps the set it has
RECURSIVE dominators_round(_, _)
dominators_round(func, i) ==
    IF i >= Len(func.blocks) THEN func
    ELSE LET preds == func.blocks[i + 1].predecessors
             new_doms == {d \in SeqToSet(func.blocks[preds[1] + 1].dominators) :
                            \A k \in 2..Len(preds) :
                                d \in SeqToSet(func.blocks[preds[k] + 1].dominators)}
         IN IF preds = <<>> THEN dominators_round(func, i + 1)
            ELSE Only({dominators_round(next, i + 1) :
                        next \in {[func EXCEPT !.blocks[i + 1].dominators =
                                                  SortedSeq(new_doms \cup {i})]}})

RECURSIVE dominators_fixpoint(_)
dominators_fixpoint(func) ==
    Only({IF next = func THEN func ELSE dominators_fixpoint(next) :
            next \in {dominators_round(func, 1)}})

compute_dominators(func) ==
    LET n == Len(func.blocks)
    IN IF n = 0 THEN func
       ELSE dominators_fixpoint([func EXCEPT !.blocks = [i \in 1..n |->
                [func.blocks[i] EXCEPT !.dominators =
                    IF i = 1 THEN <<0>> ELSE [k \in 1..n |-> k - 1]]]])

\* compute_postdominators is empty and identify_natural_loops drops the loops
\* it finds: neither changes the function
analyze(func) == compute_dominators(build_cfg(func))

MaxCfgBlocks == 2

\* a terminator may name any block of the function or one past the last
CfgTargets == 0..MaxCfgBlocks

CfgTerminators ==
    {Return(<<I32(0)>>)}
    \cup {Branch(t) : t \in CfgTargets}
    \cup {CondBranch(Argument(0), t, f) : t \in CfgTargets, f \in CfgTargets}

\* blocks numbered by position, as IRBuilder::create_block numbers them
CfgFunction(terms) ==
    [blocks |-> [i \in 1..Len(terms) |->
        [IRBasicBlock(i - 1) EXCEPT !.instructions = <<terms[i]>>]]]

InitCFG ==
    /\ \E n \in 1..MaxCfgBlocks : \E terms \in [1..n -> CfgTerminators] :
          cfa = [orig |-> CfgFunction(terms), func |-> CfgFunction(terms),
                 analyzed |-> FALSE, passes |-> 0]
    /\ dce = Idle /\ cf = Idle /\ ph = Idle /\ ssa = Idle /\ ra = Idle /\ bld = Idle
    /\ vm = Idle /\ optz = Idle /\ inl = Idle /\ repl = Idle /\ strs = Idle /\ eng = Idle

\* ControlFlowAnalyzer::analyze on the function the builder produced
Analyze ==
    /\ ~cfa.analyzed
    /\ cfa' = [cfa EXCEPT !.func = analyze(cfa.func), !.analyzed = TRUE]
    /\ UNCHANGED <<dce, cf, ph, ssa, ra, bld, vm, optz, inl, repl, strs, eng>>

\* DeadCodeEliminator::eliminate_dead_code on the analysed function
EliminateDeadCode ==
    /\ cfa.analyzed
    /\ cfa.passes < MaxPasses
    /\ cfa' = [cfa EXCEPT !.func = eliminate_dead_code(cfa.func).func,
                          !.passes = cfa.passes + 1]
    /\ UNCHANGED <<dce, cf, ph, ssa, ra, bld, vm, optz, inl, repl, strs, eng>>

NextCFG == Analyze \/ EliminateDeadCode

SpecCFG == InitCFG /\ [][NextCFG]_vars

\* the targets a block of the input names that are no block of it
MissingTargets(func) ==
    UNION {SeqToSet(get_successors(func.blocks[i])) : i \in 1..Len(func.blocks)}
        \ BlockIdsOf(func)

MaxSteps == 40
MaxLines == 3

\* VM::new(module), and run entered
vm_new(module) ==
    [prog |-> <<>>, module |-> module, status |-> "running", ip |-> module.entry,
     stack |-> <<>>, frames |-> <<>>, globals |-> [i \in 1..Len(module.globals) |-> Null],
     out |-> <<>>, result |-> Null, halted |-> FALSE, written |-> <<<<>>>>, heap |-> <<>>]

RECURSIVE run_loop(_, _)
\* VM::run: the loop, until run returns (at most fuel rounds)
run_loop(m, fuel) ==
    IF m.status # "running" \/ fuel = 0 THEN m
    ELSE Only({run_loop(next, fuel - 1) : next \in {exec(m)}})

NotRun == [ran |-> FALSE, status |-> "err", out |-> <<>>, result |-> Null]

\* compile and run of one wrapping: what it printed, whether run was
\* entered, and how it ended (ok with the value, err, or panic)
compile_and_run(prog) ==
    Only({IF module.err THEN NotRun
          ELSE Only({[ran |-> TRUE, status |-> m.status, out |-> m.out, result |-> m.result] :
                     m \in {run_loop(vm_new(module), MaxSteps)}}) :
          module \in {compile(prog)}})

\* Option<Val>: .ok() of the parse, of the compile and of the run
eval_expr(line) ==
    IF line.expr = <<>> THEN NotRun
    ELSE compile_and_run(<<ReplEval(line.expr[1])>>)

\* Result<()>: the error of the parse, of the compile or of the run
eval_stmt(line) ==
    IF ~line.body.ok THEN NotRun
    ELSE compile_and_run(<<ReplExec(line.body.stmts)>>)

ReplLine(text, expr, ok, stmts) ==
    [text |-> text, expr |-> expr, body |-> [ok |-> ok, stmts |-> stmts]]

PrintThenAdd == Binary("Add", CallExpr("print_int", <<IntLit(7)>>), IntLit(1))

ReplLines ==
    {ReplLine("1 + 2 * 3", <<Binary("Add", IntLit(1), Binary("Mul", IntLit(2), IntLit(3)))>>,
              FALSE, <<>>),
     ReplLine("let x = 5;", <<>>, TRUE, <<Let("x", IntLit(5))>>),
     ReplLine("let x = 5 +;", <<>>, FALSE, <<>>),
     ReplLine("print_int(3);", <<CallExpr("print_int", <<IntLit(3)>>)>>, TRUE,
              <<ExprStmt(CallExpr("print_int", <<IntLit(3)>>))>>),
     ReplLine("print_int(7) + 1;", <<PrintThenAdd>>, TRUE, <<ExprStmt(PrintThenAdd)>>),
     ReplLine("h(1);", <<CallExpr("h", <<IntLit(1)>>)>>, TRUE,
              <<ExprStmt(CallExpr("h", <<IntLit(1)>>))>>)}

NoLine == ReplLine("", <<>>, FALSE, <<>>)

InitRepl ==
    /\ repl = [phase |-> "prompt", line |-> NoLine, history |-> <<>>, line_num |-> 1,
               out |-> <<>>, errors |-> 0, executions |-> 0]
    /\ dce = Idle /\ cf = Idle /\ ph = Idle /\ ssa = Idle /\ ra = Idle /\ bld = Idle
    /\ vm = Idle /\ optz = Idle /\ cfa = Idle /\ inl = Idle /\ strs = Idle /\ eng = Idle

\* read_line, a line that is no dot-command: history.push(input)
ReadLine ==
    /\ repl.phase = "prompt"
    /\ repl.line_num <= MaxLines
    /\ \E line \in ReplLines :
        repl' = [repl EXCEPT !.phase = "expr", !.line = line,
                             !.history = Append(@, line.text),
                             !.out = <<>>, !.errors = 0, !.executions = 0]
    /\ UNCHANGED <<dce, cf, ph, ssa, ra, bld, vm, optz, cfa, inl, strs, eng>>

\* .clear
ClearCommand ==
    /\ repl.phase = "prompt"
    /\ repl' = [repl EXCEPT !.history = <<>>, !.line_num = 1]
    /\ UNCHANGED <<dce, cf, ph, ssa, ra, bld, vm, optz, cfa, inl, strs, eng>>

\* .exit and .quit
ExitCommand ==
    /\ repl.phase = "prompt"
    /\ repl' = [repl EXCEPT !.phase = "exited"]
    /\ UNCHANGED <<dce, cf, ph, ssa, ra, bld, vm, optz, cfa, inl, strs, eng>>

\* if let Some(result) = eval_expr(&input) { print it } else: to eval_stmt
TryExpression ==
    /\ repl.phase = "expr"
    /\ \E r \in {eval_expr(repl.line)} :
       LET printed == repl.out \o r.out
       IN repl' = [repl EXCEPT
             !.executions = IF r.ran THEN @ + 1 ELSE @,
             !.out = IF r.status = "ok" /\ r.result # Null
                     THEN Append(printed, r.result.v) ELSE printed,
             !.phase = CASE r.status = "ok" -> "prompt"
                         [] r.status = "panic" -> "aborted"
                         [] OTHER -> "stmt",
             !.line_num = IF r.status = "ok" THEN @ + 1 ELSE @]
    /\ UNCHANGED <<dce, cf, ph, ssa, ra, bld, vm, optz, cfa, inl, strs, eng>>

\* if let Err(e) = eval_stmt(&input) { eprintln!("Error: {}", e) }
TryStatement ==
    /\ repl.phase = "stmt"
    /\ \E r \in {eval_stmt(repl.line)} :
          repl' = [repl EXCEPT
             !.executions = IF r.ran THEN @ + 1 ELSE @,
             !.out = @ \o r.out,
             !.errors = IF r.status = "err" THEN @ + 1 ELSE @,
             !.phase = IF r.status = "panic" THEN "aborted" ELSE "prompt",
             !.line_num = IF r.status = "panic" THEN @ ELSE @ + 1]
    /\ UNCHANGED <<dce, cf, ph, ssa, ra, bld, vm, optz, cfa, inl, strs, eng>>

NextRepl == ReadLine \/ ClearCommand \/ ExitCommand \/ TryExpression \/ TryStatement

SpecRepl == InitRepl /\ [][NextRepl]_vars

\* C24: statement mode is attempted for a line only when its expression-mode
\* wrapping fails to parse, and a line that parsed and started running in
\* expression mode is never run a second time in statement mode
C24_StatementModeOnlyAfterParseFailure ==
    /\ repl.phase = "stmt" => repl.line.expr = <<>>
    /\ repl.executions <= 1

(***************************************************************************)
(* ir_builder.rs and codegen.rs, string literals.  The function built is a *)
(* run of up to MaxLiterals declarations  let v = e;  where e is a string  *)
(* literal or a literal concatenated with an integer; codegen then writes  *)
(* one label per entry of the interning table into the data section.       *)
(***************************************************************************)
MaxLiterals == 4

LiteralTexts == {"a", "b", "c"}

StringExprs ==
    {ASTStr(text) : text \in LiteralTexts}
    \cup {ASTBinary("Add", ASTStr(text), ASTInt(1)) : text \in LiteralTexts}

InitStrings ==
    /\ \E rest \in SeqsUpTo(StringExprs, MaxLiterals) :
        strs = [rest |-> rest, st |-> NewBuilder("Void"), pc |-> "build", data |-> {}]
    /\ dce = Idle /\ cf = Idle /\ ph = Idle /\ ssa = Idle /\ ra = Idle /\ bld = Idle
    /\ vm = Idle /\ optz = Idle /\ cfa = Idle /\ inl = Idle /\ repl = Idle /\ eng = Idle

\* build_function, one round of its loop over the body
BuildVarDecl ==
    /\ strs.pc = "build" /\ strs.rest # <<>>
    /\ strs' = [strs EXCEPT !.st = build_var_decl(@, Head(strs.rest)), !.rest = Tail(@)]
    /\ UNCHANGED <<dce, cf, ph, ssa, ra, bld, vm, optz, cfa, inl, repl, eng>>

\* the end of build_function
FinishFunction ==
    /\ strs.pc = "build" /\ strs.rest = <<>>
    /\ strs' = [strs EXCEPT !.st = default_return(@), !.pc = "built"]
    /\ UNCHANGED <<dce, cf, ph, ssa, ra, bld, vm, optz, cfa, inl, repl, eng>>

\* generate_x86_64, the data section: a label __str_<id> for every entry
GenerateData ==
    /\ strs.pc = "built"
    /\ strs' = [strs EXCEPT !.pc = "emitted",
                  !.data = {StrRef(strs.st.string_literals[text]) :
                               text \in DOMAIN strs.st.string_literals}]
    /\ UNCHANGED <<dce, cf, ph, ssa, ra, bld, vm, optz, cfa, inl, repl, eng>>

NextStrings == BuildVarDecl \/ FinishFunction \/ GenerateData

SpecStrings == InitStrings /\ [][NextStrings]_vars

\* the string-literal references among the operands of the built IR
StringReferences(st) ==
    {val \in UNION {SeqToSet(instr.args) :
                      instr \in UNION {SeqToSet(st.blocks[b].instructions) :
                                          b \in 1..Len(st.blocks)}} : IsStrRef(val)}

\* C21: after IR building, every reference __str_<id> in the IR has an entry
\* of the interning table with that id, and no two different literal texts
\* have the same id, also when a text occurs more than once
C21_EveryStringReferenceIsInterned ==
    strs.pc \in {"built", "emitted"} =>
        LET table == strs.st.string_literals
        IN /\ \A ref \in StringReferences(strs.st) :
                 \E text \in DOMAIN table : table[text] = ref.v
           /\ \A s \in DOMAIN table, t \in DOMAIN table : s # t => table[s] # table[t]

(***************************************************************************)
(* ffi.rs.  A ScriptEngine holds the compiled modules, the VMs that have   *)
(* run, the native functions (by name: the built-ins of register_builtins  *)
(* and those of register_native) and the globals map of set_global and     *)
(* get_global.  One script, "s", is compiled and run; a script is given as *)
(* the program the parser yields.  eng.got is what the last get_global     *)
(* returned, eng.invoked the natives that have been invoked.               *)
(***************************************************************************)
Builtins ==
    {"sqrt", "abs", "pow", "sin", "cos", "tan", "floor", "ceil", "round", "min", "max",
     "clamp", "lerp", "random", "random_range"}

HostNatives == {"twice"}

HostValues == {Val("Int", 3), Val("Int", 7)}

\* Option<Val>::None and the result of a call that has not been made
NoVal == Val("None", 0)

\* void fn main() { print_int(g); }
ReadsGlobal == <<FnDef("main", <<>>, "Void", <<ExprStmt(CallExpr("print_int", <<Var("g")>>))>>)>>

\* void fn main() { g = 5; }
StoresGlobal == <<FnDef("main", <<>>, "Void", <<Assign("g", IntLit(5))>>)>>

\* i32 fn main() { return f(4); }
CallsNative(f) == <<MainReturning(CallExpr(f, <<IntLit(4)>>))>>

Scripts ==
    {ReadsGlobal, StoresGlobal, CallsNative("abs"), CallsNative("twice"),
     <<MainReturning(Binary("Add", IntLit(1), IntLit(2)))>>}

\* ScriptEngine::new, register_builtins included
InitEngine ==
    /\ \E script \in Scripts :
        eng = [script |-> script, pc |-> "source", modules |-> <<>>, vms |-> <<>>,
               native_fns |-> Builtins, globals |-> <<>>, result |-> NoVal,
               got |-> NoVal, invoked |-> {}]
    /\ dce = Idle /\ cf = Idle /\ ph = Idle /\ ssa = Idle /\ ra = Idle /\ bld = Idle
    /\ vm = Idle /\ optz = Idle /\ cfa = Idle /\ inl = Idle /\ repl = Idle /\ strs = Idle

RegisterNative ==
    /\ \E name \in HostNatives :
        /\ name \notin eng.native_fns
        /\ eng' = [eng EXCEPT !.native_fns = @ \cup {name}]
    /\ UNCHANGED <<dce, cf, ph, ssa, ra, bld, vm, optz, cfa, inl, repl, strs>>

SetGlobal ==
    /\ \E value \in HostValues :
        /\ eng.globals # Insert(eng.globals, "g", value)
        /\ eng' = [eng EXCEPT !.globals = Insert(@, "g", value)]
    /\ UNCHANGED <<dce, cf, ph, ssa, ra, bld, vm, optz, cfa, inl, repl, strs>>

\* ScriptEngine::get_global
engine_get_global(engine, name) ==
    IF name \in DOMAIN engine.globals THEN engine.globals[name] ELSE NoVal

GetGlobal ==
    /\ eng.got # engine_get_global(eng, "g")
    /\ eng' = [eng EXCEPT !.got = engine_get_global(eng, "g")]
    /\ UNCHANGED <<dce, cf, ph, ssa, ra, bld, vm, optz, cfa, inl, repl, strs>>

\* ScriptEngine::compile: Compiler::new().compile(ast)?, then the module is
\* kept under the script's name
CompileScript ==
    /\ eng.pc = "source"
    /\ \E module \in {compile(eng.script)} :
        eng' = IF module.err THEN [eng EXCEPT !.pc = "rejected"]
               ELSE [eng EXCEPT !.pc = "compiled", !.modules = <<module>>]
    /\ UNCHANGED <<dce, cf, ph, ssa, ra, bld, vm, optz, cfa, inl, repl, strs>>

\* ScriptEngine::run: the module is taken out, VM::new(module), vm.run()?,
\* and the VM is kept
RunScript ==
    /\ eng.pc = "compiled"
    /\ \E m \in {run_loop(vm_new(eng.modules[1]), MaxSteps)} :
        eng' = IF m.status = "ok"
               THEN [eng EXCEPT !.pc = "ran", !.modules = <<>>, !.vms = <<m>>,
                                !.result = m.result]
               ELSE [eng EXCEPT !.pc = "failed", !.modules = <<>>]
    /\ UNCHANGED <<dce, cf, ph, ssa, ra, bld, vm, optz, cfa, inl, repl, strs>>

NextEngine == RegisterNative \/ SetGlobal \/ GetGlobal \/ CompileScript \/ RunScript

SpecEngine == InitEngine /\ [][NextEngine]_vars

RunReturns == eng.pc = "compiled" /\ eng'.pc \in {"ran", "failed"}

\* C22: host and script share the globals: a value the host stored with
\* set_global before run is what the running script reads for that global,
\* and what the script stores to a global is what get_global returns after
\* the run
C22_HostAndScriptShareGlobals ==
    [][RunReturns =>
         /\ (eng.script = ReadsGlobal /\ engine_get_global(eng, "g") # NoVal)
                => (eng'.pc = "ran" /\ eng'.vms[1].out = <<engine_get_global(eng, "g").v>>)
         /\ eng.script = StoresGlobal
                => (eng'.pc = "ran" /\ engine_get_global(eng', "g") = Val("Int", 5))]_vars

CalledNatives(script) ==
    {f \in Builtins \cup HostNatives : script = CallsNative(f)}

\* C23: a native registered on the engine, built-in or added with
\* register_native, is callable by name from a script: compiling a script
\* that calls it succeeds, and running the script invokes the native
C23_RegisteredNativesAreCallable ==
    (CalledNatives(eng.script) # {} /\ CalledNatives(eng.script) \subseteq eng.native_fns)
        => /\ eng.pc # "rejected"
           /\ eng.pc = "ran" => CalledNatives(eng.script) \subseteq eng.invoked
====
